---- MODULE Spec2Model ----
(***************************************************************************)
(* pyadm: configuration-section resolution (config.py), Proxmox resource  *)
(* resolution and the pve command line (pvecli), the index commands        *)
(* (elastic), the LDAP bind (ldapcli), the error paths of the config and   *)
(* elastic commands, `config set`, the text rendering of Helper.print_data *)
(* and the state-changing operations and get_next_vmid of PVEClient.       *)
(*                                                                         *)
(* Strings are sequences of one-character strings, so that upper-casing,   *)
(* prefix tests, splitting, integer parsing and regex matching are         *)
(* computed character by character as the Python code computes them.       *)
(***************************************************************************)
EXTENDS Integers, Sequences, FiniteSets, TLC

VARIABLES
    config,            \* pyadm.conf: the sections in file order, [name, opts]
    selected_cluster,  \* elastic/click_commands.py: selected_cluster["name"]
    nodes,             \* Proxmox: /nodes in API order, [node, status]
    inventory,         \* Proxmox: vmid -> resource [kind, name, node] or Absent
    failing,           \* Proxmox: nodes whose qemu/lxc listing request fails
    online_nodes,      \* PVEClient._online_nodes (None until first fetched)
    es_indices,        \* Elasticsearch: cat.indices in the backend's order
    directory,         \* LDAP server: the DNs it binds, those it breaks on
    out                \* what the last command returned, printed or requested

vars == <<config, selected_cluster, nodes, inventory, failing, online_nodes,
          es_indices, directory, out>>

----------------------------------------------------------------------------
(* Strings                                                                 *)

\* Python None; distinct from every string because its element is no character.
None == <<"<None>">>

\* Python truthiness of an optional string: None and "" are both false.
Truthy(x) == x # None /\ x # <<>>

LowerLetters ==
    <<"a","b","c","d","e","f","g","h","i","j","k","l","m",
      "n","o","p","q","r","s","t","u","v","w","x","y","z">>

UpperLetters ==
    <<"A","B","C","D","E","F","G","H","I","J","K","L","M",
      "N","O","P","Q","R","S","T","U","V","W","X","Y","Z">>

\* str.upper() on one character
UpperChar(c) ==
    IF \E i \in 1..26 : LowerLetters[i] = c
    THEN UpperLetters[CHOOSE i \in 1..26 : LowerLetters[i] = c]
    ELSE c

\* str.upper()
upper(s) == [i \in 1..Len(s) |-> UpperChar(s[i])]

\* str.lower() on one character, and str.lower()
LowerChar(c) ==
    IF \E i \in 1..26 : UpperLetters[i] = c
    THEN LowerLetters[CHOOSE i \in 1..26 : UpperLetters[i] = c]
    ELSE c

lower(s) == [i \in 1..Len(s) |-> LowerChar(s[i])]

\* str.startswith(p)
startswith(s, p) == Len(p) <= Len(s) /\ SubSeq(s, 1, Len(p)) = p

\* str.endswith(p)
endswith(s, p) ==
    Len(p) <= Len(s) /\ SubSeq(s, Len(s) - Len(p) + 1, Len(s)) = p

\* `c in s` for a character c
Contains(s, c) == \E i \in 1..Len(s) : s[i] = c

\* s.split(c, 1) for a string that contains c: <<before, after>> the first c
SplitFirst(s, c) ==
    LET i == CHOOSE k \in 1..Len(s) :
                 s[k] = c /\ \A j \in 1..(k - 1) : s[j] # c
    IN <<SubSeq(s, 1, i - 1), SubSeq(s, i + 1, Len(s))>>

\* The elements of a sequence
Range(s) == {s[i] : i \in 1..Len(s)}

\* The sequences without repetition over S, of length at most n
RECURSIVE DistinctSeqs(_, _)
DistinctSeqs(S, n) ==
    IF n = 0 THEN {<<>>}
    ELSE LET shorter == DistinctSeqs(S, n - 1)
         IN shorter \cup
            {Append(p[1], p[2]) :
                p \in {q \in shorter \X S :
                          Len(q[1]) = n - 1 /\ q[2] \notin Range(q[1])}}

----------------------------------------------------------------------------
(* Configuration file and ClusterConfig (config.py)                        *)

\* Section names a configuration file may hold
S_LDAP        == <<"L","D","A","P">>
S_LDAP_PROD   == <<"L","D","A","P","_","P","R","O","D">>
S_ldap        == <<"l","d","a","p">>
S_ldap_prod   == <<"l","d","a","p","_","p","r","o","d">>
S_ELASTIC     == <<"E","L","A","S","T","I","C">>
S_production  == <<"p","r","o","d","u","c","t","i","o","n">>
S_PVE         == <<"P","V","E">>
S_NOPE        == <<"N","O","P","E">>

SectionNames ==
    {S_LDAP, S_LDAP_PROD, S_ldap, S_ldap_prod, S_ELASTIC, S_production, S_PVE}

\* Names a caller may request: any section name, one that is in no file, or none
RequestNames == SectionNames \cup {S_NOPE, None}

\* The prefixes the program resolves with (config.py:13, pve_commands.py:53)
Prefixes == {S_ELASTIC, S_LDAP, S_PVE}

\* Option keys (configparser lower-cases them) and values
K_url    == <<"u","r","l">>
K_server == <<"s","e","r","v","e","r">>
Keys == {K_url, K_server}
K_nokey  == <<"n","o","k","e","y">>

\* The option sets a section may hold
OptChoices ==
    {[k \in {K_url} |-> <<"v","1">>],
     [k \in {K_server} |-> <<"v","2">>],
     [k \in {K_url, K_server} |->
         IF k = K_url THEN <<"v","3">> ELSE <<"v","4">>]}

\* Largest number of sections in a configuration file
MaxSections == 2

\* The configuration files: distinct section names in file order, each with options
ConfigFiles ==
    UNION {{[i \in 1..Len(names) |-> [name |-> names[i], opts |-> o[i]]] :
               o \in [1..Len(names) -> OptChoices]} :
           names \in DistinctSeqs(SectionNames, MaxSections)}

\* `name in clusters` for the ordered dict clusters
HasSection(clusters, name) == \E i \in 1..Len(clusters) : clusters[i].name = name

\* clusters[name]
Section(clusters, name) ==
    clusters[CHOOSE i \in 1..Len(clusters) : clusters[i].name = name]

\* get_clusters with the prefix test made case-sensitive
get_clusters_case_sensitive(sections, prefix) ==
    SelectSeq(sections, LAMBDA s : startswith(s.name, prefix))

\* ClusterConfig.get_clusters: the sections whose upper-cased name starts with
\* the upper-cased prefix, in file order
get_clusters(sections, prefix) ==
    SelectSeq(sections, LAMBDA s : startswith(upper(s.name), upper(prefix)))

\* get_cluster without the bare-prefix step: name, else first
get_cluster_no_bare_prefix(sections, name, prefix) ==
    LET clusters == get_clusters(sections, prefix)
    IN IF clusters = <<>>
       THEN [error |-> "RuntimeError", prefix |-> prefix]
       ELSE IF Truthy(name) /\ HasSection(clusters, name)
       THEN [error |-> "", section |-> Section(clusters, name)]
       ELSE [error |-> "", section |-> clusters[1]]

\* get_cluster with the bare-prefix step comparing names ignoring case
get_cluster_bare_prefix_any_case(sections, name, prefix) ==
    LET clusters == get_clusters(sections, prefix)
        bare == SelectSeq(clusters, LAMBDA s : upper(s.name) = upper(prefix))
    IN IF clusters = <<>>
       THEN [error |-> "RuntimeError", prefix |-> prefix]
       ELSE IF Truthy(name) /\ HasSection(clusters, name)
       THEN [error |-> "", section |-> Section(clusters, name)]
       ELSE IF bare # <<>>
       THEN [error |-> "", section |-> bare[1]]
       ELSE [error |-> "", section |-> clusters[1]]

\* ClusterConfig.get_cluster: the section chosen, or the RuntimeError raised
get_cluster(sections, name, prefix) ==
    LET clusters == get_clusters(sections, prefix)
    IN IF clusters = <<>>
       THEN [error |-> "RuntimeError", prefix |-> prefix]
       ELSE IF Truthy(name) /\ HasSection(clusters, name)
       THEN [error |-> "", section |-> Section(clusters, name)]
       ELSE IF HasSection(clusters, upper(prefix))
       THEN [error |-> "", section |-> Section(clusters, upper(prefix))]
       ELSE [error |-> "", section |-> clusters[1]]

\* No pyadm process is running: every command is one fresh process (main.py)
NoOutput == [cmd |-> "none"]

AtPrompt == out = NoOutput

\* No LDAP server is in use
NoDirectory == [accepts |-> {}, raises |-> {}]

\* How a command ends: whether it caught an error (a malformed argument or a
\* failed call), its exit status, and the messages on each stream
Outcome(handled, exit, stdout, stderr) ==
    [handled |-> handled, exit |-> exit, stdout |-> stdout, stderr |-> stderr]

\* An exception no handler catches: Python prints the traceback and exits 1
Unhandled(exception) ==
    [handled |-> FALSE, exit |-> 1, stdout |-> <<>>,
     stderr |-> <<"Traceback", exception>>]

\* The process ends: its module-level selection and its client are discarded
Exit ==
    /\ ~AtPrompt
    /\ out' = NoOutput
    /\ selected_cluster' = None
    /\ online_nodes' = None
    /\ UNCHANGED <<config, nodes, inventory, failing, es_indices, directory>>

\* A direct call of ClusterConfig.get_cluster(name, prefix)
GetCluster(name, prefix) ==
    /\ AtPrompt
    /\ out' = [cmd |-> "get_cluster", name |-> name, prefix |-> prefix,
               res |-> get_cluster(config, name, prefix)]
    /\ UNCHANGED <<config, selected_cluster, nodes, inventory, failing,
                   online_nodes, es_indices, directory>>

\* get_es: the settings the Elasticsearch client is built from; get_cluster is
\* called with the selected name and its default prefix "ELASTIC"
get_es(sections, selected) == get_cluster(sections, selected, S_ELASTIC)

\* `pyadm elastic --cluster NAME info`: the group callback stores NAME, then
\* the subcommand builds its client with get_es
ElasticInfo(cluster) ==
    /\ AtPrompt
    /\ selected_cluster' = cluster
    /\ out' = [cmd |-> "elastic", cluster |-> cluster,
               res |-> get_es(config, selected_cluster')]
    /\ UNCHANGED <<config, nodes, inventory, failing, online_nodes, es_indices,
                   directory>>

\* The key paths given to `config get`: SECTION.key, or a path without a dot
KeyPaths ==
    {n \o <<".">> \o k : n \in SectionNames \cup {S_NOPE},
                         k \in Keys \cup {K_nokey}}
    \cup {S_LDAP}

\* get_config_value: what `pyadm config get KEY_PATH` echoes. The section is
\* looked up with get_cluster(section) and its default prefix "ELASTIC".
get_config_value(sections, key_path) ==
    IF ~Contains(key_path, ".")
    THEN [echo |-> "error", msg |-> "ValueError"]
    ELSE LET section == SplitFirst(key_path, ".")[1]
             key     == SplitFirst(key_path, ".")[2]
             res     == get_cluster(sections, section, S_ELASTIC)
         IN IF res.error # ""
            THEN [echo |-> "error", msg |-> res.error]
            ELSE IF key \in DOMAIN res.section.opts
            THEN [echo |-> "value", section |-> section, key |-> key,
                  value |-> res.section.opts[key], from |-> res.section.name]
            ELSE [echo |-> "notfound", section |-> section, key |-> key,
                  from |-> res.section.name]

\* `pyadm config get KEY_PATH`
ConfigGet(key_path) ==
    /\ AtPrompt
    /\ out' = [cmd |-> "config get", key_path |-> key_path,
               res |-> get_config_value(config, key_path),
               run |-> LET res == get_config_value(config, key_path)
                       IN Outcome(res.echo = "error", 0, <<res.echo>>, <<>>)]
    /\ UNCHANGED <<config, selected_cluster, nodes, inventory, failing,
                   online_nodes, es_indices, directory>>

\* The arguments given to `config set`: without "=", without ".", an option
\* of an existing or a new section, a key in upper case, a value holding "=",
\* a value holding a lone "%" and one holding "%%"
K_URL == <<"U","R","L">>
KeyValues ==
    {S_LDAP,
     S_LDAP \o <<"=">> \o <<"v","5">>,
     S_LDAP \o <<".">> \o K_url \o <<"=">> \o <<"v","5">>,
     S_NOPE \o <<".">> \o K_url \o <<"=">> \o <<"v","5">>,
     S_LDAP \o <<".">> \o K_URL \o <<"=">> \o <<"v","5">>,
     S_LDAP \o <<".">> \o K_url \o <<"=">> \o <<"v","=","5">>,
     S_LDAP \o <<".">> \o K_server \o <<"=">> \o <<"5","%">>,
     S_ELASTIC \o <<".">> \o K_server \o <<"=">> \o <<"5","%","%">>}

\* value.replace('%%', ''): the pairs "%%" removed from left to right
RECURSIVE without_escapes(_)
without_escapes(value) ==
    IF Len(value) = 0 THEN value
    ELSE IF Len(value) >= 2 /\ value[1] = "%" /\ value[2] = "%"
    THEN without_escapes(SubSeq(value, 3, Len(value)))
    ELSE <<value[1]>> \o without_escapes(Tail(value))

\* The length of a reference %(name)s at the head of the text, 0 if none
reference_at(text) ==
    IF Len(text) >= 5 /\ text[1] = "%" /\ text[2] = "("
       /\ \E j \in 4..(Len(text) - 1) :
              /\ text[j] = ")" /\ text[j + 1] = "s"
              /\ \A i \in 3..(j - 1) : text[i] # ")"
    THEN 1 + CHOOSE j \in 4..(Len(text) - 1) :
                 /\ text[j] = ")" /\ text[j + 1] = "s"
                 /\ \A i \in 3..(j - 1) : text[i] # ")"
    ELSE 0

\* _KEYCRE.sub('', text): the references %(name)s removed
RECURSIVE without_references(_)
without_references(text) ==
    IF Len(text) = 0 THEN text
    ELSE IF reference_at(text) > 0
    THEN without_references(SubSeq(text, reference_at(text) + 1, Len(text)))
    ELSE <<text[1]>> \o without_references(Tail(text))

\* Whether configparser accepts the value in `config[section][key] = value`:
\* BasicInterpolation.before_set raises ValueError when a "%" is left after
\* the escapes "%%" and the references are taken out
accepts_value(value) ==
    ~Contains(without_references(without_escapes(value)), "%")

\* set_option with the key stored as it was typed
set_option_as_typed(opts, key, value) ==
    [k \in DOMAIN opts \cup {key} |-> IF k = key THEN value ELSE opts[k]]

\* config[section][key] = value on the options of one section; configparser
\* stores the key in lower case
set_option(opts, key, value) ==
    [k \in DOMAIN opts \cup {lower(key)} |->
        IF k = lower(key) THEN value ELSE opts[k]]

\* The sections after set_config_value's `if section not in config:
\* config[section] = {}` and `config[section][key] = value`
with_option(sections, section, key, value) ==
    IF HasSection(sections, section)
    THEN [i \in 1..Len(sections) |->
             IF sections[i].name = section
             THEN [name |-> section,
                   opts |-> set_option(sections[i].opts, key, value)]
             ELSE sections[i]]
    ELSE Append(sections,
                [name |-> section,
                 opts |-> [k \in {lower(key)} |-> value]])

\* set_config_value: the sections written back and what is echoed
set_config_value(sections, key_value) ==
    IF ~Contains(key_value, "=")
    THEN [echo |-> "error", msg |-> "Format must be section.key=value",
          sections |-> sections]
    ELSE LET key_path == SplitFirst(key_value, "=")[1]
             value    == SplitFirst(key_value, "=")[2]
         IN IF ~Contains(key_path, ".")
            THEN [echo |-> "error",
                  msg |-> "Key path must be in format section.key",
                  sections |-> sections]
            ELSE LET section == SplitFirst(key_path, ".")[1]
                     key     == SplitFirst(key_path, ".")[2]
                 IN IF ~accepts_value(value)
                    THEN [echo |-> "error",
                          msg |-> "invalid interpolation syntax",
                          sections |-> sections]
                    ELSE [echo |-> "set", msg |-> "",
                          sections |-> with_option(sections, section, key, value)]

\* `pyadm config set SECTION.KEY=VALUE`
ConfigSet(key_value) ==
    LET res == set_config_value(config, key_value)
    IN /\ AtPrompt
       /\ config' = res.sections
       /\ out' = [cmd |-> "config set", key_value |-> key_value,
                  res |-> [echo |-> res.echo, msg |-> res.msg],
                  run |-> Outcome(res.echo = "error", 0, <<res.echo>>, <<>>)]
       /\ UNCHANGED <<selected_cluster, nodes, inventory, failing,
                      online_nodes, es_indices, directory>>

----------------------------------------------------------------------------
(* Proxmox: PVEClient listings (pve.py) and resolve_resource_id            *)

\* The /nodes request, as a member of the failing requests
EP_nodes == <<"/","n","o","d","e","s">>

N1 == <<"n","1">>
N2 == <<"n","2">>
NodeNames == {N1, N2}

R_web  == <<"w","e","b">>
R_db   == <<"d","b">>
R_nope == <<"n","o","p","e">>
ResourceNames == {R_web, R_db}

\* The first VMID Proxmox hands out, and the largest one of the model
MinVmid == 100
MaxVmid == 101
VmIds == MinVmid..MaxVmid

Absent == [kind |-> "absent"]

\* The remote inventories: every VMID is free or names one VM or container
Inventories ==
    [VmIds -> {Absent} \cup
              [kind : {"vm", "ct"}, name : ResourceNames, node : NodeNames]]

\* The statuses of the nodes, in the order /nodes returns them
NodeLists ==
    {<<[node |-> N1, status |-> s1], [node |-> N2, status |-> s2]>> :
        s1 \in {"online", "offline"}, s2 \in {"online", "offline"}}

\* int(): the value of a decimal digit, -1 for any other character
Digits == <<"0","1","2","3","4","5","6","7","8","9">>
DigitValue(c) ==
    IF \E d \in 1..10 : Digits[d] = c
    THEN (CHOOSE d \in 1..10 : Digits[d] = c) - 1
    ELSE -1

\* Whether int(s) succeeds (s is a non-empty run of digits)
IsInt(s) == Len(s) > 0 /\ \A i \in 1..Len(s) : DigitValue(s[i]) >= 0

\* int(s) for such a string
RECURSIVE ParseInt(_)
ParseInt(s) ==
    IF Len(s) = 0 THEN 0
    ELSE 10 * ParseInt(SubSeq(s, 1, Len(s) - 1)) + DigitValue(s[Len(s)])

\* The decimal text of the VMIDs, and the identifiers a user may type
RECURSIVE Decimal(_)
Decimal(n) ==
    IF n < 10 THEN <<Digits[n + 1]>>
    ELSE Decimal(n \div 10) \o <<Digits[(n % 10) + 1]>>

Identifiers ==
    {Decimal(i) : i \in MinVmid..(MaxVmid + 1)} \cup ResourceNames \cup {R_nope}

\* PVEClient.get_online_nodes: <<the list returned, the cache afterwards>>.
\* The node list is fetched only while the cache is None; a failed fetch
\* returns [] and leaves the cache unset.
get_online_nodes(cache, nodelist, broken) ==
    IF cache # None THEN <<cache, cache>>
    ELSE IF EP_nodes \in broken THEN <<(<<>>), None>>
    ELSE LET online == SelectSeq(nodelist, LAMBDA n : n.status = "online")
             names  == [i \in 1..Len(online) |-> online[i].node]
         IN <<names, names>>

\* api.nodes(node).qemu.get() / .lxc.get() with the node added to each entry:
\* the resources of that kind on the node, by ascending VMID
RECURSIVE NodeListing(_, _, _, _)
NodeListing(inv, kind, node, upto) ==
    IF upto < MinVmid THEN <<>>
    ELSE LET rest == NodeListing(inv, kind, node, upto - 1)
         IN IF inv[upto].kind = kind /\ inv[upto].node = node
            THEN Append(rest, [vmid |-> upto, name |-> inv[upto].name,
                               node |-> node])
            ELSE rest

\* The loop of get_vms / get_containers over the online nodes:
\* [vms, errors] after the nodes online[i..]
RECURSIVE Aggregate(_, _, _, _, _)
Aggregate(inv, kind, online, broken, i) ==
    IF i > Len(online) THEN [vms |-> <<>>, errors |-> <<>>]
    ELSE LET rest == Aggregate(inv, kind, online, broken, i + 1)
         IN IF online[i] \in broken
            THEN [vms |-> rest.vms, errors |-> <<online[i]>> \o rest.errors]
            ELSE [vms |-> NodeListing(inv, kind, online[i], MaxVmid)
                            \o rest.vms,
                  errors |-> rest.errors]

\* PVEClient.get_vms() / get_containers() without a node: the listing, or the
\* exception raised when some node failed and nothing was collected
get_resources(inv, kind, online, broken) ==
    LET agg == Aggregate(inv, kind, online, broken, 1)
    IN IF agg.errors # <<>> /\ agg.vms = <<>>
       THEN [raised |-> TRUE, vms |-> <<>>, warnings |-> <<>>]
       ELSE [raised |-> FALSE, vms |-> agg.vms, warnings |-> agg.errors]

\* The scan `for resource in resources: if resource['vmid'] == numeric_id`:
\* the index of the first entry with that VMID, 0 if none
find_by_vmid(list, vmid) ==
    IF \E i \in 1..Len(list) : list[i].vmid = vmid
    THEN CHOOSE i \in 1..Len(list) :
             list[i].vmid = vmid /\ \A j \in 1..(i - 1) : list[j].vmid # vmid
    ELSE 0

\* PVEClient.find_vm_by_name / find_container_by_name on a fetched listing:
\* the index of the first entry with that name, 0 for None
find_by_name(list, name) ==
    IF \E i \in 1..Len(list) : list[i].name = name
    THEN CHOOSE i \in 1..Len(list) :
             list[i].name = name /\ \A j \in 1..(i - 1) : list[j].name # name
    ELSE 0

\* KindOf with the container branch lost: every resource_type lists VMs
KindOf_always_vm(resource_type) == "vm"

\* The API kind of a resource_type: "vm" lists VMs, anything else containers
KindOf(resource_type) == IF resource_type = "vm" THEN "vm" ELSE "ct"

\* resolve_resource_id without the check of the found resource's node
\* against the node given
resolve_resource_id_unchecked(inv, online, broken, resource_id, node, resource_type) ==
    LET listing == get_resources(inv, KindOf(resource_type), online, broken)
    IN IF IsInt(resource_id)
       THEN LET numeric_id == ParseInt(resource_id)
                hit == find_by_vmid(listing.vms, numeric_id)
            IN IF Truthy(node)
               THEN [status |-> "ok", id |-> numeric_id, node |-> node]
               ELSE IF listing.raised
               THEN [status |-> "Exception"]
               ELSE IF hit = 0
               THEN [status |-> "ClickException", msg |-> "specify --node",
                     id |-> numeric_id]
               ELSE [status |-> "ok", id |-> numeric_id,
                     node |-> listing.vms[hit].node]
       ELSE LET hit == find_by_name(listing.vms, resource_id)
            IN IF listing.raised
               THEN [status |-> "Exception"]
               ELSE IF hit = 0
               THEN [status |-> "ClickException", msg |-> "not found",
                     name |-> resource_id]
               ELSE [status |-> "ok", id |-> listing.vms[hit].vmid,
                     node |-> listing.vms[hit].node]

\* The body of resolve_resource_id on the listing the client returns
resolve_on(listing, resource_id, node) ==
    IF IsInt(resource_id)
    THEN LET numeric_id == ParseInt(resource_id)
             hit == find_by_vmid(listing.vms, numeric_id)
         IN IF Truthy(node)
            THEN [status |-> "ok", id |-> numeric_id, node |-> node]
            ELSE IF listing.raised
            THEN [status |-> "Exception"]
            ELSE IF hit = 0
            THEN [status |-> "ClickException", msg |-> "specify --node",
                  id |-> numeric_id]
            ELSE [status |-> "ok", id |-> numeric_id,
                  node |-> listing.vms[hit].node]
    ELSE LET hit == find_by_name(listing.vms, resource_id)
         IN IF listing.raised
            THEN [status |-> "Exception"]
            ELSE IF hit = 0
            THEN [status |-> "ClickException", msg |-> "not found",
                  name |-> resource_id]
            ELSE IF Truthy(node) /\ listing.vms[hit].node # node
            THEN [status |-> "ClickException", msg |-> "mismatch",
                  name |-> resource_id,
                  exists_on |-> listing.vms[hit].node, specified |-> node]
            ELSE [status |-> "ok", id |-> listing.vms[hit].vmid,
                  node |-> listing.vms[hit].node]

\* resolve_resource_id(client, resource_id, node, resource_type)
resolve_resource_id(inv, online, broken, resource_id, node, resource_type) ==
    resolve_on(get_resources(inv, KindOf(resource_type), online, broken),
               resource_id, node)

\* Whether resolve_resource_id fetches a listing (and so the online nodes)
Fetches(resource_id, node) == ~(IsInt(resource_id) /\ Truthy(node))

\* The requests that fail now: the failing ones, and the listing of a node
\* that is offline
Unreachable ==
    failing \cup {nodes[i].node :
                     i \in {j \in 1..Len(nodes) : nodes[j].status = "offline"}}

\* One resolution on the client: `pyadm pve vm|ct <command> ID_OR_NAME [--node N]`
Resolve(resource_id, node, resource_type) ==
    LET got == get_online_nodes(online_nodes, nodes, failing)
    IN /\ AtPrompt
       /\ out' = [cmd |-> "resolve", resource_id |-> resource_id,
                  node |-> node, resource_type |-> resource_type,
                  res |-> resolve_resource_id(inventory, got[1], Unreachable,
                                              resource_id, node, resource_type)]
       /\ online_nodes' = IF Fetches(resource_id, node) THEN got[2]
                          ELSE online_nodes
       /\ UNCHANGED <<config, selected_cluster, nodes, inventory, failing,
                      es_indices, directory>>

\* client.get_vms() / client.get_containers() called without a node, as the
\* list commands and resolve_resource_id do
GetResources(resource_type) ==
    LET got == get_online_nodes(online_nodes, nodes, failing)
    IN /\ AtPrompt
       /\ out' = [cmd |-> "get_resources", resource_type |-> resource_type,
                  res |-> get_resources(inventory, KindOf(resource_type),
                                        got[1], Unreachable)]
       /\ online_nodes' = got[2]
       /\ UNCHANGED <<config, selected_cluster, nodes, inventory, failing,
                      es_indices, directory>>

\* GET /cluster/nextid: the cluster answers with the decimal text of its
\* lowest free VMID
cluster_nextid(inv) ==
    Decimal(CHOOSE n \in MinVmid..(MaxVmid + 1) :
                /\ n \in VmIds => inv[n] = Absent
                /\ \A m \in MinVmid..(n - 1) : inv[m] # Absent)

\* `next_id = 100; while next_id in ids: next_id += 1`
RECURSIVE first_free(_, _)
first_free(ids, next_id) ==
    IF next_id \in ids THEN first_free(ids, next_id + 1) ELSE next_id

\* PVEClient.get_next_vmid: int() of the cluster's answer, or, when that
\* request fails, the first free id over get_vms() and get_containers();
\* an exception of either listing is raised again
get_next_vmid(inv, online, broken, nextid_fails) ==
    IF ~nextid_fails
    THEN [raised |-> FALSE, vmid |-> ParseInt(cluster_nextid(inv)),
          fallback |-> FALSE]
    ELSE LET vms == get_resources(inv, "vm", online, broken)
             cts == get_resources(inv, "ct", online, broken)
             ids == {vms.vms[i].vmid : i \in 1..Len(vms.vms)}
                    \cup {cts.vms[i].vmid : i \in 1..Len(cts.vms)}
         IN IF vms.raised \/ cts.raised
            THEN [raised |-> TRUE, vmid |-> 0, fallback |-> TRUE]
            ELSE [raised |-> FALSE, vmid |-> first_free(ids, MinVmid),
                  fallback |-> TRUE]

\* One call of client.get_next_vmid(), as `vm create` and `ct create` make
\* when no VMID is given
NextVmid(nextid_fails) ==
    LET got == get_online_nodes(online_nodes, nodes, failing)
    IN /\ AtPrompt
       /\ out' = [cmd |-> "get_next_vmid", nextid_fails |-> nextid_fails,
                  res |-> get_next_vmid(inventory, got[1], Unreachable,
                                        nextid_fails)]
       /\ online_nodes' = IF nextid_fails THEN got[2] ELSE online_nodes
       /\ UNCHANGED <<config, selected_cluster, nodes, inventory, failing,
                      es_indices, directory>>

\* The caller takes the result of a call and keeps the client for later calls
Return ==
    /\ out # NoOutput
    /\ out' = NoOutput
    /\ UNCHANGED <<config, selected_cluster, nodes, inventory, failing,
                   online_nodes, es_indices, directory>>

\* In the cluster a VM or container is migrated to another node
Migrate(vmid, node) ==
    /\ AtPrompt
    /\ inventory[vmid].kind # "absent"
    /\ inventory[vmid].node # node
    /\ inventory' = [inventory EXCEPT ![vmid].node = node]
    /\ UNCHANGED <<config, selected_cluster, nodes, failing, online_nodes,
                   es_indices, out, directory>>

\* In the cluster a node goes offline or comes back online
NodeChange(i) ==
    /\ AtPrompt
    /\ nodes' = [nodes EXCEPT ![i].status =
                    IF nodes[i].status = "online" THEN "offline" ELSE "online"]
    /\ UNCHANGED <<config, selected_cluster, inventory, failing, online_nodes,
                   es_indices, out, directory>>

----------------------------------------------------------------------------
(* The pve command line: get_pve_client and `vm start` (pve_commands.py,   *)
(* vm_commands.py, offline_client.py)                                      *)

\* The options get_pve_client requires of the [PVE] section
K_host     == <<"h","o","s","t">>
K_password == <<"p","a","s","s","w","o","r","d">>

\* ~/.config/pyadm/pyadm.conf does not exist
NoConfigFile == <<[name |-> None, opts |-> <<>>]>>

\* A file with a complete [PVE] section
PveConfigured ==
    <<[name |-> S_PVE,
       opts |-> [k \in {K_host, K_password} |->
                    IF k = K_host THEN <<"v","1">> ELSE <<"v","2">>]]>>

\* The configuration files of the pve commands: none, one without a PVE
\* section, one whose section lacks the password, a complete one
PveConfigFiles ==
    {NoConfigFile, <<>>,
     <<[name |-> S_PVE, opts |-> [k \in {K_host} |-> <<"v","1">>]]>>,
     PveConfigured}

\* The sample data of OfflinePVEClient.get_vms()
OfflineVms ==
    <<[vmid |-> 100, name |-> <<"s","a","m","p","l","e","-","v","m","1">>,
       node |-> <<"n","o","d","e","1">>],
      [vmid |-> 101, name |-> <<"s","a","m","p","l","e","-","v","m","2">>,
       node |-> <<"n","o","d","e","1">>],
      [vmid |-> 102, name |-> <<"s","a","m","p","l","e","-","v","m","3">>,
       node |-> <<"n","o","d","e","2">>]>>

\* get_pve_client(): which client the command gets ("None" under --dry-run,
\* "offline", "live"), what it echoes, or the exception it raises
get_pve_client(dry_run, offline, sections) ==
    IF dry_run
    THEN [client |-> "None", error |-> "",
          echo |-> <<"DRY-RUN mode: Would connect to Proxmox VE server">>]
    ELSE IF offline
    THEN [client |-> "offline", error |-> "",
          echo |-> <<"OFFLINE mode: Using sample data">>]
    ELSE IF sections = NoConfigFile
    THEN [client |-> "", error |-> "Configuration file not found", echo |-> <<>>]
    ELSE LET cfg == get_cluster(sections, None, S_PVE)
         IN IF cfg.error # ""
            THEN [client |-> "", error |-> "No PVE cluster/server defined",
                  echo |-> <<>>]
            ELSE IF K_host \notin DOMAIN cfg.section.opts
                    \/ K_password \notin DOMAIN cfg.section.opts
            THEN [client |-> "", error |-> "Missing required configuration",
                  echo |-> <<>>]
            ELSE [client |-> "live", error |-> "", echo |-> <<>>]

\* One request to the Proxmox API
Request(op, node, vmid) == [op |-> op, node |-> node, vmid |-> vmid]

\* The requests of get_online_nodes: /nodes is asked while nothing is cached
NodesRequests(cache) ==
    IF cache = None THEN <<Request("GET /nodes", None, 0)>> ELSE <<>>

\* The requests of get_vms() over the online nodes: one listing per node
ListingRequests(online) ==
    [i \in 1..Len(online) |-> Request("GET qemu", online[i], 0)]

\* Whether the cluster accepts the start of VM vmid on node
Startable(inv, node, vmid, broken) ==
    /\ node \notin broken
    /\ vmid \in VmIds
    /\ inv[vmid].kind = "vm"
    /\ inv[vmid].node = node

\* start_vm of vm_commands.py on the live client: resolve_resource_id, then
\* PVEClient.start_vm (the node must be online, then the start is posted)
live_start(inv, nodelist, broken, unreachable, vmid, node) ==
    LET got1     == get_online_nodes(None, nodelist, broken)
        fetches  == Fetches(vmid, node)
        resolved == resolve_resource_id(inv, got1[1], unreachable, vmid, node,
                                        "vm")
        asked1   == IF fetches
                    THEN NodesRequests(None) \o ListingRequests(got1[1])
                    ELSE <<>>
        cache1   == IF fetches THEN got1[2] ELSE None
        got2     == get_online_nodes(cache1, nodelist, broken)
        asked2   == asked1 \o NodesRequests(cache1)
    IN IF resolved.status # "ok"
       THEN [status |-> "ClickException", error |-> "resolve",
             requests |-> asked1, echo |-> <<>>]
       ELSE IF \A i \in 1..Len(got2[1]) : got2[1][i] # resolved.node
       THEN [status |-> "ClickException", error |-> "node is offline",
             requests |-> asked2, echo |-> <<>>]
       ELSE IF ~Startable(inv, resolved.node, resolved.id, unreachable)
       THEN [status |-> "ClickException", error |-> "start failed",
             requests |-> Append(asked2, Request("POST start", resolved.node,
                                                 resolved.id)),
             echo |-> <<>>]
       ELSE [status |-> "ok", error |-> "",
             requests |-> Append(asked2, Request("POST start", resolved.node,
                                                 resolved.id)),
             echo |-> <<"start initiated">>]

\* start_vm of vm_commands.py on the offline client: the sample data is
\* resolved and the start is simulated
offline_start(vmid, node) ==
    LET resolved == resolve_on([raised |-> FALSE, vms |-> OfflineVms,
                                warnings |-> <<>>], vmid, node)
    IN IF resolved.status # "ok"
       THEN [status |-> "ClickException", error |-> "resolve",
             requests |-> <<>>, echo |-> <<>>]
       ELSE [status |-> "ok", error |-> "", requests |-> <<>>,
             echo |-> <<"start initiated">>]

\* start_vm of vm_commands.py without a client: every use of the client is
\* an attribute access on None, which the handler reports as its error
none_start(vmid, node) ==
    [status |-> "ClickException",
     error |-> "'NoneType' object has no attribute",
     requests |-> <<>>, echo |-> <<>>]

\* `pyadm pve [--dry-run] [--offline] vm start VMID [--node NODE]`. The power
\* state of the VM in the cluster is not tracked.
VmStart(dry_run, offline, vmid, node) ==
    LET got == get_pve_client(dry_run, offline, config)
        run == IF got.error # ""
               THEN [status |-> "ClickException", error |-> got.error,
                     requests |-> <<>>, echo |-> <<>>]
               ELSE IF got.client = "None" THEN none_start(vmid, node)
               ELSE IF got.client = "offline" THEN offline_start(vmid, node)
               ELSE live_start(inventory, nodes, failing, Unreachable, vmid,
                               node)
    IN /\ AtPrompt
       /\ out' = [cmd |-> "vm start", dry_run |-> dry_run,
                  offline |-> offline, vmid |-> vmid, node |-> node,
                  client |-> got.client,
                  config_read |-> ~dry_run /\ ~offline /\ config # NoConfigFile,
                  requests |-> run.requests,
                  stdout |-> got.echo \o run.echo,
                  status |-> run.status, error |-> run.error]
       /\ UNCHANGED <<config, selected_cluster, nodes, inventory, failing,
                      online_nodes, es_indices, directory>>

----------------------------------------------------------------------------
(* Proxmox: the state-changing operations of PVEClient (pve.py)            *)

\* The operations and the request each one sends to its node
ChangingOperations ==
    {[name |-> "start_vm",          request |-> "POST qemu/{vmid}/status/start"],
     [name |-> "stop_vm",           request |-> "POST qemu/{vmid}/status/stop"],
     [name |-> "shutdown_vm",       request |-> "POST qemu/{vmid}/status/shutdown"],
     [name |-> "start_container",   request |-> "POST lxc/{vmid}/status/start"],
     [name |-> "stop_container",    request |-> "POST lxc/{vmid}/status/stop"],
     [name |-> "create_vm",         request |-> "POST qemu"],
     [name |-> "create_container",  request |-> "POST lxc"],
     [name |-> "clone_vm",          request |-> "POST qemu/{vmid}/clone"],
     [name |-> "create_bridge",     request |-> "POST network"],
     [name |-> "delete_network_interface", request |-> "DELETE network/{iface}"],
     [name |-> "apply_network_changes",    request |-> "PUT network"]}

\* An operation that sends its request without looking at the online nodes
node_operation_unchecked(cache, nodelist, broken, op, node, vmid, accepted) ==
    LET got   == get_online_nodes(cache, nodelist, broken)
        asked == Append(NodesRequests(cache), Request(op.request, node, vmid))
    IN [raised |-> ~accepted,
        error |-> IF accepted THEN "" ELSE "request failed",
        requests |-> asked, cache |-> got[2]]

\* The body shared by the operations: get_online_nodes(), `if node not in
\* online_nodes: raise`, then the request, whose failure is raised again
node_operation(cache, nodelist, broken, op, node, vmid, accepted) ==
    LET got   == get_online_nodes(cache, nodelist, broken)
        asked == NodesRequests(cache)
    IN IF \A i \in 1..Len(got[1]) : got[1][i] # node
       THEN [raised |-> TRUE, error |-> "node is offline",
             requests |-> asked, cache |-> got[2]]
       ELSE [raised |-> ~accepted,
             error |-> IF accepted THEN "" ELSE "request failed",
             requests |-> Append(asked, Request(op.request, node, vmid)),
             cache |-> got[2]]

\* One call of an operation on the client; the cluster answers the request
\* with success only if it would and the node can be reached. What the
\* request changes in the cluster is not tracked.
Operate(op, node, vmid, accepted) ==
    LET res == node_operation(online_nodes, nodes, failing, op, node, vmid,
                              accepted /\ node \notin Unreachable)
    IN /\ AtPrompt
       /\ out' = [cmd |-> "operate", op |-> op.name, node |-> node,
                  vmid |-> vmid, raised |-> res.raised, error |-> res.error,
                  requests |-> res.requests]
       /\ online_nodes' = res.cache
       /\ UNCHANGED <<config, selected_cluster, nodes, inventory, failing,
                      es_indices, directory>>

----------------------------------------------------------------------------
(* Elasticsearch: list_indices (elastic.py), reindex and delete            *)

\* Characters of index names and of the --index pattern
NameChars == {"a", "b", "."}
PatChars  == NameChars \cup {"*"}

\* Longest --index pattern, most indices in the backend
MaxPatLen  == 2
MaxIndices == 2

\* The strings over S of length lo..hi
Strings(S, lo, hi) == UNION {[1..n -> S] : n \in lo..hi}

\* The index names a backend may hold; one is a system index
IndexNames ==
    {<<"a">>, <<"a","b">>, <<"a",".">>, <<"a","a","b">>, <<"a",".","b">>,
     <<".","a">>}
Patterns   == Strings(PatChars, 0, MaxPatLen)

\* The backend listings: distinct index names in the order cat.indices gives
Backends == DistinctSeqs(IndexNames, MaxIndices)

\* ord() of the characters in use
Ord(c) ==
    CASE c = "*" -> 42
      [] c = "-" -> 45
      [] c = "." -> 46
      [] c = "a" -> 97
      [] c = "b" -> 98
      [] OTHER   -> 127

\* Python's s < t on strings
RECURSIVE StrLess(_, _)
StrLess(s, t) ==
    IF t = <<>> THEN FALSE
    ELSE IF s = <<>> THEN TRUE
    ELSE IF Ord(s[1]) # Ord(t[1]) THEN Ord(s[1]) < Ord(t[1])
    ELSE StrLess(Tail(s), Tail(t))

\* sorted(list, key=name): insertion of x after the entries not greater than it
RECURSIVE Insert(_, _)
Insert(sorted, x) ==
    IF sorted = <<>> THEN <<x>>
    ELSE IF StrLess(x, sorted[1]) THEN <<x>> \o sorted
    ELSE <<sorted[1]>> \o Insert(Tail(sorted), x)

RECURSIVE Sorted(_)
Sorted(list) ==
    IF list = <<>> THEN <<>>
    ELSE Insert(Sorted(SubSeq(list, 1, Len(list) - 1)), list[Len(list)])

\* list_indices without the removal of the system indices
list_indices_with_system(backend) == Sorted(backend)

\* list_indices in the order the backend answered
list_indices_backend_order(backend) ==
    SelectSeq(backend, LAMBDA name : ~startswith(name, <<".">>))

\* ElasticSearch.list_indices: the indices not starting with ".", sorted by name
list_indices(backend) ==
    Sorted(SelectSeq(backend, LAMBDA name : ~startswith(name, <<".">>)))

\* index.replace("*", ".*")
RECURSIVE ReplaceStar(_)
ReplaceStar(s) ==
    IF s = <<>> THEN <<>>
    ELSE (IF s[1] = "*" THEN <<".", "*">> ELSE <<s[1]>>) \o ReplaceStar(Tail(s))

\* The pattern after `if not index.endswith('*'): index += '*'`
Suffixed(index) == IF endswith(index, <<"*">>) THEN index ELSE index \o <<"*">>

\* pattern = '^' + index.replace("*", ".*") + '$'
to_regex(index) == <<"^">> \o ReplaceStar(Suffixed(index)) \o <<"$">>

\* One regex atom against one character: "." matches any character
AtomMatches(atom, c) == atom = "." \/ atom = c

\* The regex re (after its "^") against the start of s: literals, ".",
\* a starred atom, and "$" at the end of the pattern
RECURSIVE MatchHere(_, _)
MatchHere(re, s) ==
    IF re = <<>> THEN TRUE
    ELSE IF re = <<"$">> THEN s = <<>>
    ELSE IF Len(re) >= 2 /\ re[2] = "*"
    THEN \E k \in 0..Len(s) :
            /\ \A j \in 1..k : AtomMatches(re[1], s[j])
            /\ MatchHere(SubSeq(re, 3, Len(re)), SubSeq(s, k + 1, Len(s)))
    ELSE s # <<>> /\ AtomMatches(re[1], s[1]) /\ MatchHere(Tail(re), Tail(s))

\* re.match(pattern, s): the match is anchored at the start of s
re_match(pattern, s) ==
    IF pattern # <<>> /\ pattern[1] = "^" THEN MatchHere(Tail(pattern), s)
    ELSE MatchHere(pattern, s)

\* The listed indices a reindex/delete loop acts on, in listing order
Matching(backend, index) ==
    SelectSeq(list_indices(backend),
              LAMBDA name : re_match(to_regex(index), name))

\* The default --suffix of reindex
DefaultSuffix == <<"r","e","i","n","d","e","x">>

\* delete_loop with the answer to the prompt ignored
RECURSIVE delete_loop_ignoring_answer(_, _, _, _)
delete_loop_ignoring_answer(selected, force, yes, refused) ==
    IF selected = <<>> THEN <<>>
    ELSE LET name == selected[1]
             rest == delete_loop_ignoring_answer(Tail(selected), force, yes,
                                                 refused)
             ask  == [op |-> "confirm", index |-> name, ok |-> name \in yes]
             call == [op |-> "delete_index", index |-> name,
                      ok |-> name \notin refused]
         IN IF force THEN <<call>> \o rest
            ELSE <<ask, call>> \o rest

\* The loop of delete over the matching indices, as the calls it makes in
\* order: click.confirm (skipped with --force), then ElasticSearch.delete_index
\* unless the answer was no. yes holds the indices whose prompt is answered
\* with yes, refused those whose deletion the backend rejects.
RECURSIVE delete_loop(_, _, _, _)
delete_loop(selected, force, yes, refused) ==
    IF selected = <<>> THEN <<>>
    ELSE LET name == selected[1]
             rest == delete_loop(Tail(selected), force, yes, refused)
             ask  == [op |-> "confirm", index |-> name, ok |-> name \in yes]
             call == [op |-> "delete_index", index |-> name,
                      ok |-> name \notin refused]
         IN IF force THEN <<call>> \o rest
            ELSE IF name \in yes THEN <<ask, call>> \o rest
            ELSE <<ask>> \o rest

\* The index names of the calls of one operation in a trace, in order
CallsOf(trace, op) ==
    LET calls == SelectSeq(trace, LAMBDA e : e.op = op)
    IN [i \in 1..Len(calls) |-> calls[i].index]

\* `pyadm elastic delete --index INDEX [--force]`
Delete(index, force, yes, refused) ==
    LET selected == Matching(es_indices, index)
        trace    == delete_loop(selected, force, yes, refused)
        deleted  == SelectSeq(trace, LAMBDA e : e.op = "delete_index" /\ e.ok)
    IN /\ AtPrompt
       /\ yes \subseteq Range(selected)
       /\ refused \subseteq Range(selected)
       /\ force => yes = {}
       /\ out' = [cmd |-> "delete", index |-> index, force |-> force,
                  pattern |-> to_regex(index),
                  listed |-> list_indices(es_indices),
                  selected |-> selected,
                  trace |-> trace,
                  prompted |-> CallsOf(trace, "confirm"),
                  requests |-> CallsOf(trace, "delete_index")]
       /\ es_indices' =
              SelectSeq(es_indices,
                        LAMBDA name : \A i \in 1..Len(deleted) :
                                          deleted[i].index # name)
       /\ UNCHANGED <<config, selected_cluster, nodes, inventory, failing,
                      online_nodes, directory>>

\* The loop of reindex over the matching indices, as the calls it makes in
\* order: click.confirm (skipped with --force), then ElasticSearch.reindex
\* unless the answer was no. A reindex the backend rejects raises, which
\* ends the loop.
RECURSIVE reindex_loop(_, _, _, _)
reindex_loop(selected, force, yes, refused) ==
    IF selected = <<>> THEN <<>>
    ELSE LET name == selected[1]
             ask  == [op |-> "confirm", index |-> name, ok |-> name \in yes]
             call == [op |-> "reindex", index |-> name,
                      ok |-> name \notin refused]
             rest == IF call.ok
                     THEN reindex_loop(Tail(selected), force, yes, refused)
                     ELSE <<>>
         IN IF force THEN <<call>> \o rest
            ELSE IF name \in yes THEN <<ask, call>> \o rest
            ELSE <<ask>> \o reindex_loop(Tail(selected), force, yes, refused)

\* `pyadm elastic reindex --index INDEX [--force]` with the default suffix;
\* requests holds the <<source, destination>> pairs passed to reindex. The
\* destination indices the backend then creates are not tracked.
Reindex(index, force, yes, refused) ==
    LET selected == Matching(es_indices, index)
        trace    == reindex_loop(selected, force, yes, refused)
        chosen   == CallsOf(trace, "reindex")
    IN /\ AtPrompt
       /\ yes \subseteq Range(selected)
       /\ refused \subseteq Range(selected)
       /\ force => yes = {}
       /\ out' = [cmd |-> "reindex", index |-> index, force |-> force,
                  pattern |-> to_regex(index),
                  listed |-> list_indices(es_indices),
                  selected |-> selected,
                  trace |-> trace,
                  prompted |-> CallsOf(trace, "confirm"),
                  requests |-> [i \in 1..Len(chosen) |->
                                  <<chosen[i],
                                    chosen[i] \o <<"-">> \o DefaultSuffix>>],
                  run |-> IF \E k \in 1..Len(trace) : ~trace[k].ok
                                /\ trace[k].op = "reindex"
                          THEN Outcome(TRUE, 1, <<>>, <<"Error: An error occurred">>)
                          ELSE Outcome(FALSE, 0, <<"Reindexing">>, <<>>)]
       /\ UNCHANGED <<config, selected_cluster, nodes, inventory, failing,
                      online_nodes, es_indices, directory>>

\* list(reversed(data))
Reversed(list) == [i \in 1..Len(list) |-> list[Len(list) + 1 - i]]

\* data[:n] for n >= 0
Take(list, n) == SubSeq(list, 1, IF n < Len(list) THEN n ELSE Len(list))

\* The values --limit may be given on the command line (click converts the
\* text with int()), None when the option is absent
Limits == {None} \cup {Decimal(n) : n \in 0..(MaxIndices + 1)}

\* json.dumps of the listing: an array with one object per entry, in order
json_dumps(data) == [i \in 1..Len(data) |-> [index |-> data[i]]]

\* tabulate(rows, header): the header taken from the first entry's keys and
\* one row per entry, in order
tabulate(data) ==
    [header |-> <<"index">>, rows |-> [i \in 1..Len(data) |-> <<data[i]>>]]

\* `pyadm elastic indices [--limit N] [--output table|json]`
Indices(limit, output) ==
    LET listed == list_indices(es_indices)
        n      == IF limit = None THEN 0 ELSE ParseInt(limit)
        data   == IF n # 0 THEN Take(Reversed(listed), n) ELSE listed
    IN /\ AtPrompt
       /\ out' = [cmd |-> "indices", limit |-> limit, output |-> output,
                  listed |-> listed,
                  printed |->
                      IF listed = <<>>
                      THEN [format |-> "text", text |-> "No indices found."]
                      ELSE IF output = "json"
                      THEN [format |-> "json", array |-> json_dumps(data)]
                      ELSE [format |-> "table", table |-> tabulate(data)]]
       /\ UNCHANGED <<config, selected_cluster, nodes, inventory, failing,
                      online_nodes, es_indices, directory>>

----------------------------------------------------------------------------
(* Elasticsearch commands that parse JSON or call the wrapper's catching   *)
(* methods (click_commands.py, elastic.py)                                 *)

\* The texts given as --query, --settings and --body
JsonTexts == {<<"{","}">>, <<"[","]">>, <<"1">>, <<"{">>, <<>>}

\* Whether json.loads accepts the text (of the texts in use)
json_loads_ok(text) == text \in {<<"{","}">>, <<"[","]">>} \/ IsInt(text)

\* The index names given to these commands
IndexArgs == {<<"a">>, <<"a","b">>}

\* Whether a request on an index fails: the backend is unreachable, or the
\* index does not exist
RequestFails(backend, index, fails) == fails \/ index \notin Range(backend)

\* `pyadm elastic search INDEX --query QUERY`
search(sections, backend, index, query, fails) ==
    IF ~json_loads_ok(query)
    THEN Outcome(TRUE, 0, <<>>, <<"Invalid query JSON">>)
    ELSE IF get_es(sections, None).error # ""
    THEN Unhandled("RuntimeError")
    ELSE IF RequestFails(backend, index, fails)
    THEN Outcome(TRUE, 0, <<>>, <<"ERROR:root:Error searching index">>)
    ELSE Outcome(FALSE, 0, <<"hits">>, <<>>)

\* `pyadm elastic update-settings INDEX --settings SETTINGS`
update_settings(sections, backend, index, settings, fails) ==
    IF ~json_loads_ok(settings)
    THEN Outcome(TRUE, 0, <<>>, <<"Invalid settings JSON">>)
    ELSE IF get_es(sections, None).error # ""
    THEN Unhandled("RuntimeError")
    ELSE IF RequestFails(backend, index, fails)
    THEN Outcome(TRUE, 0, <<>>,
                 <<"ERROR:root:Error updating settings for index",
                   "Failed to update settings for index">>)
    ELSE Outcome(FALSE, 0, <<"Settings updated for index">>, <<>>)

\* `pyadm elastic mapping INDEX`: a failed request yields {} and print_data
\* prints nothing
mapping(sections, backend, index, fails) ==
    IF get_es(sections, None).error # ""
    THEN Unhandled("RuntimeError")
    ELSE IF RequestFails(backend, index, fails)
    THEN Outcome(TRUE, 0, <<>>, <<"ERROR:root:Error getting mapping for index">>)
    ELSE Outcome(FALSE, 0, <<"Mappings">>, <<>>)

\* `pyadm elastic health`
health(sections, fails) ==
    IF get_es(sections, None).error # ""
    THEN Unhandled("RuntimeError")
    ELSE IF fails
    THEN Outcome(TRUE, 0, <<>>, <<"ERROR:root:Error getting cluster health">>)
    ELSE Outcome(FALSE, 0, <<"Status">>, <<>>)

\* `pyadm elastic create-index INDEX [--body BODY]`: the body is parsed
\* outside any handler; the backend refuses an index that exists
create_index(sections, backend, index, body, fails) ==
    IF body # None /\ body # <<>> /\ ~json_loads_ok(body)
    THEN Unhandled("JSONDecodeError")
    ELSE IF get_es(sections, None).error # ""
    THEN Unhandled("RuntimeError")
    ELSE IF fails \/ index \in Range(backend)
    THEN Outcome(TRUE, 0, <<>>,
                 <<"ERROR:root:Error creating index", "Failed to create index">>)
    ELSE Outcome(FALSE, 0, <<"Index created">>, <<>>)

Search(index, query, fails) ==
    /\ AtPrompt
    /\ out' = [cmd |-> "search", index |-> index, text |-> query,
               fails |-> fails,
               run |-> search(config, es_indices, index, query, fails)]
    /\ UNCHANGED <<config, selected_cluster, nodes, inventory, failing,
                   online_nodes, es_indices, directory>>

UpdateSettings(index, settings, fails) ==
    /\ AtPrompt
    /\ out' = [cmd |-> "update-settings", index |-> index, text |-> settings,
               fails |-> fails,
               run |-> update_settings(config, es_indices, index, settings,
                                       fails)]
    /\ UNCHANGED <<config, selected_cluster, nodes, inventory, failing,
                   online_nodes, es_indices, directory>>

Mapping(index, fails) ==
    /\ AtPrompt
    /\ out' = [cmd |-> "mapping", index |-> index, text |-> None,
               fails |-> fails,
               run |-> mapping(config, es_indices, index, fails)]
    /\ UNCHANGED <<config, selected_cluster, nodes, inventory, failing,
                   online_nodes, es_indices, directory>>

Health(fails) ==
    /\ AtPrompt
    /\ out' = [cmd |-> "health", index |-> None, text |-> None,
               fails |-> fails, run |-> health(config, fails)]
    /\ UNCHANGED <<config, selected_cluster, nodes, inventory, failing,
                   online_nodes, es_indices, directory>>

CreateIndex(index, body, fails) ==
    LET run == create_index(config, es_indices, index, body, fails)
    IN /\ AtPrompt
       /\ out' = [cmd |-> "create-index", index |-> index, text |-> body,
                  fails |-> fails, run |-> run]
       /\ es_indices' = IF run.exit = 0 /\ ~run.handled
                        THEN Append(es_indices, index)
                        ELSE es_indices
       /\ UNCHANGED <<config, selected_cluster, nodes, inventory, failing,
                      online_nodes, directory>>

----------------------------------------------------------------------------
(* LDAP: LDAPClient._connect (ldapcli/ldap.py)                             *)

\* The options of the [LDAP] section that _connect reads
K_bind_username == <<"b","i","n","d","_","u","s","e","r","n","a","m","e">>
K_bind_password == <<"b","i","n","d","_","p","a","s","s","w","o","r","d">>
K_base_dn       == <<"b","a","s","e","_","d","n">>

\* Bind usernames: an email address, a DN, a cn= name holding "@", a plain name
U_email    == <<"j","@","x">>
U_dn       == <<"c","n","=","j">>
U_cn_email == <<"c","n","=","j","@","x">>
U_plain    == <<"j">>
BindUsernames == {U_email, U_dn, U_cn_email, U_plain}

BaseDns == {<<"d","c","=","x">>}

\* The password the server knows, and a wrong one
PW_good == <<"p","w">>
PW_bad  == <<"n","o">>

\* The [LDAP] sections: bind_password may be missing
LdapConfigs ==
    {<<[name |-> S_LDAP,
        opts |-> [k \in {K_bind_username, K_base_dn, K_bind_password} |->
                     IF k = K_bind_username THEN u
                     ELSE IF k = K_base_dn THEN b ELSE pw]]>> :
        u \in BindUsernames, b \in BaseDns, pw \in {PW_good, PW_bad}}
    \cup
    {<<[name |-> S_LDAP,
        opts |-> [k \in {K_bind_username, K_base_dn} |->
                     IF k = K_bind_username THEN u ELSE b]]>> :
        u \in BindUsernames, b \in BaseDns}

\* bind_username.split('@')[0]
email_user(bind_username) == SplitFirst(bind_username, "@")[1]

\* dn_patterns: the eight DNs guessed for an email address, in order
dn_patterns(bind_username, base_dn) ==
    LET uid == <<"u","i","d","=">>
        cn  == <<"c","n","=">>
        users == <<",","c","n","=","u","s","e","r","s">>
        short == email_user(bind_username)
    IN <<uid \o short \o <<",">> \o base_dn,
         cn \o short \o <<",">> \o base_dn,
         uid \o bind_username \o <<",">> \o base_dn,
         cn \o bind_username \o <<",">> \o base_dn,
         uid \o short \o users \o <<",">> \o base_dn,
         cn \o short \o users \o <<",">> \o base_dn,
         uid \o bind_username \o users \o <<",">> \o base_dn,
         cn \o bind_username \o users \o <<",">> \o base_dn>>

\* The DNs the server may know: the usernames and every guess made for them
KnownDns ==
    BindUsernames \cup
    UNION {Range(dn_patterns(U_email, b)) : b \in BaseDns}

\* Most DNs the server binds
MaxAccepted == 2

\* The LDAP servers: the DNs whose bind succeeds with the right password, and
\* at most one DN on which the connection raises instead of answering
Directories ==
    {[accepts |-> a, raises |-> r] :
        a \in {x \in SUBSET KnownDns : Cardinality(x) <= MaxAccepted},
        r \in {{}} \cup {{dn} : dn \in KnownDns}}

\* One bind attempt: the server's answer to (user, password)
bind(server, user, password) ==
    [user |-> user, password |-> password,
     result |-> IF user \in server.raises THEN "raise"
                ELSE IF user \in server.accepts /\ password = PW_good THEN "ok"
                ELSE "fail"]

\* The test with the cn= exclusion lost
looks_like_email_any_at(bind_username) == Contains(bind_username, "@")

\* `'@' in bind_username and not bind_username.startswith('cn=')`
looks_like_email(bind_username) ==
    Contains(bind_username, "@") /\ ~startswith(bind_username, <<"c","n","=">>)

\* The loop over dn_patterns: the attempts made, stopping at the first bind
\* that succeeds; an attempt that raises is skipped
RECURSIVE guess_loop(_, _, _)
guess_loop(server, guesses, password) ==
    IF guesses = <<>> THEN <<>>
    ELSE LET attempt == bind(server, guesses[1], password)
         IN IF attempt.result = "ok" THEN <<attempt>>
            ELSE <<attempt>> \o guess_loop(server, Tail(guesses), password)

\* LDAPClient._connect: the bind attempts in order, and how it ends
ldap_connect(server, opts) ==
    LET bind_username == opts[K_bind_username]
        base_dn == opts[K_base_dn]
    IN IF K_bind_password \notin DOMAIN opts
       THEN [binds |-> <<>>, status |-> "ValueError",
             msg |-> "LDAP bind password is required."]
       ELSE LET bind_pw == opts[K_bind_password]
                first   == bind(server, bind_username, bind_pw)
                guessed == IF looks_like_email(bind_username)
                           THEN guess_loop(server,
                                           dn_patterns(bind_username, base_dn),
                                           bind_pw)
                           ELSE <<>>
            IN IF first.result = "ok"
               THEN [binds |-> <<first>>, status |-> "bound", msg |-> ""]
               ELSE IF first.result = "raise"
               THEN [binds |-> <<first>>, status |-> "ValueError",
                     msg |-> "LDAP connection error"]
               ELSE IF guessed # <<>> /\ guessed[Len(guessed)].result = "ok"
               THEN [binds |-> <<first>> \o guessed, status |-> "bound",
                     msg |-> ""]
               ELSE [binds |-> <<first>> \o guessed, status |-> "ValueError",
                     msg |-> "LDAP bind failed"]

\* LDAPClient(config): the constructor connects and binds
LdapConnect ==
    /\ AtPrompt
    /\ out' = [cmd |-> "ldap connect", opts |-> config[1].opts,
               res |-> ldap_connect(directory, config[1].opts)]
    /\ UNCHANGED <<config, selected_cluster, nodes, inventory, failing,
                   online_nodes, es_indices, directory>>

----------------------------------------------------------------------------
(* Helper.print_data (helper.py)                                            *)

\* str.replace(a, b) for single characters
replace(s, a, b) == [i \in 1..Len(s) |-> IF s[i] = a THEN b ELSE s[i]]

\* str.capitalize(): the first character upper-cased, the others lower-cased
capitalize(s) ==
    IF s = <<>> THEN s
    ELSE upper(SubSeq(s, 1, 1)) \o lower(SubSeq(s, 2, Len(s)))

\* The dicts handed to print_data: a dict is the sequence of its items in
\* insertion order, [key, isdict, value, items]; a leaf carries a value (an
\* integer), a nested dict its own items
DataKeys == {<<"a","_","b">>, <<"x","_","Y">>}
DataValues == {1, 23}
MaxItems == 2
MaxDepth == 1

Leaf(key, value) == [key |-> key, isdict |-> FALSE, value |-> value, items |-> <<>>]
Nested(key, items) == [key |-> key, isdict |-> TRUE, value |-> 0, items |-> items]

\* The dicts with distinct keys over a set of possible items
DictsOver(entries) ==
    {d \in UNION {[1..n -> entries] : n \in 0..MaxItems} :
        \A i, j \in 1..Len(d) : d[i].key = d[j].key => i = j}

RECURSIVE Dicts(_)
Dicts(depth) ==
    LET leaves == {Leaf(k, v) : k \in DataKeys, v \in DataValues}
    IN IF depth = 0 THEN DictsOver(leaves)
       ELSE DictsOver(leaves \cup
                      {Nested(k, d) : k \in DataKeys, d \in Dicts(depth - 1)})

\* The inner print_data(d, prefix): the lines it prints, in order
RECURSIVE print_data(_, _)
print_data(d, prefix) ==
    IF d = <<>> THEN <<>>
    ELSE LET item == Head(d)
             here == IF item.isdict
                     THEN print_data(item.items, prefix \o item.key \o <<" ">>)
                     ELSE <<prefix \o capitalize(replace(item.key, "_", " "))
                              \o <<":", " ">> \o Decimal(item.value)>>
         IN here \o print_data(Tail(d), prefix)

\* Helper.print_data(data)
PrintData(data) ==
    /\ AtPrompt
    /\ out' = [cmd |-> "print_data", data |-> data,
               lines |-> print_data(data, <<>>)]
    /\ UNCHANGED <<config, selected_cluster, nodes, inventory, failing,
                   online_nodes, es_indices, directory>>

----------------------------------------------------------------------------
(* Specifications                                                          *)

\* The remote systems and the client before anything is configured or fetched
NoInventory == [v \in VmIds |-> Absent]

\* The Proxmox environments: a node is offline, online, or online with its
\* listing requests failing; or the /nodes request itself fails
Environments ==
    UNION {{[nodes |-> nl, failing |-> f] :
               f \in SUBSET {nl[i].node :
                               i \in {j \in 1..Len(nl) : nl[j].status = "online"}}} :
           nl \in NodeLists}
    \cup {[nodes |-> <<[node |-> N1, status |-> "online"],
                       [node |-> N2, status |-> "online"]>>,
           failing |-> {EP_nodes}]}

\* Configuration resolution: any configuration file, nothing else in use
InitConfig ==
    /\ config \in ConfigFiles
    /\ selected_cluster = None
    /\ nodes = <<>>
    /\ inventory = NoInventory
    /\ failing = {}
    /\ online_nodes = None
    /\ es_indices = <<>>
    /\ directory = NoDirectory
    /\ out = NoOutput

NextConfig ==
    \/ \E name \in RequestNames, prefix \in Prefixes : GetCluster(name, prefix)
    \/ \E cluster \in RequestNames : ElasticInfo(cluster)
    \/ \E key_path \in KeyPaths : ConfigGet(key_path)
    \/ Exit

SpecConfig == InitConfig /\ [][NextConfig]_vars

\* Proxmox resource resolution: any inventory and environment, a fresh client
InitPve ==
    /\ config = <<>>
    /\ selected_cluster = None
    /\ \E env \in Environments : nodes = env.nodes /\ failing = env.failing
    /\ inventory \in Inventories
    /\ online_nodes = None
    /\ es_indices = <<>>
    /\ directory = NoDirectory
    /\ out = NoOutput

NextPve ==
    \/ \E resource_id \in Identifiers, node \in NodeNames \cup {None},
          resource_type \in {"vm", "container"} :
           Resolve(resource_id, node, resource_type)
    \/ \E resource_type \in {"vm", "container"} : GetResources(resource_type)
    \/ \E nextid_fails \in BOOLEAN : NextVmid(nextid_fails)
    \/ Exit

SpecPve == InitPve /\ [][NextPve]_vars

\* One PVEClient used for several resolutions while the cluster changes
\* between them
InitPveClient ==
    /\ config = <<>>
    /\ selected_cluster = None
    /\ nodes \in NodeLists
    /\ failing = {}
    /\ inventory \in Inventories
    /\ online_nodes = None
    /\ es_indices = <<>>
    /\ directory = NoDirectory
    /\ out = NoOutput

NextPveClient ==
    \/ \E resource_id \in Identifiers, node \in NodeNames \cup {None},
          resource_type \in {"vm", "container"} :
           Resolve(resource_id, node, resource_type)
    \/ Return
    \/ \E vmid \in VmIds, node \in NodeNames : Migrate(vmid, node)
    \/ \E i \in 1..Len(nodes) : NodeChange(i)

SpecPveClient == InitPveClient /\ [][NextPveClient]_vars

\* The pve command line: any configuration file; the cluster plays a part
\* only when the file is complete
InitPveCli ==
    /\ config \in PveConfigFiles
    /\ selected_cluster = None
    /\ \E env \in Environments : nodes = env.nodes /\ failing = env.failing
    /\ inventory \in Inventories
    /\ config # PveConfigured => (inventory = NoInventory /\ failing = {})
    /\ online_nodes = None
    /\ es_indices = <<>>
    /\ directory = NoDirectory
    /\ out = NoOutput

NextPveCli ==
    \/ /\ AtPrompt
       /\ \E dry_run \in BOOLEAN, offline \in BOOLEAN, vmid \in Identifiers,
             node \in NodeNames \cup {None} :
              VmStart(dry_run, offline, vmid, node)
    \/ Exit

SpecPveCli == InitPveCli /\ [][NextPveCli]_vars

\* Error handling: a file without an ELASTIC section, one with it and one
\* with an LDAP section; a backend without or with one index
ErrorConfigs ==
    {<<>>,
     <<[name |-> S_ELASTIC, opts |-> [k \in {K_url} |-> <<"v","1">>]]>>,
     <<[name |-> S_LDAP, opts |-> [k \in {K_url} |-> <<"v","1">>]]>>}

InitErrors ==
    /\ config \in ErrorConfigs
    /\ selected_cluster = None
    /\ nodes = <<>>
    /\ inventory = NoInventory
    /\ failing = {}
    /\ online_nodes = None
    /\ es_indices \in {<<>>, << <<"a">> >>}
    /\ directory = NoDirectory
    /\ out = NoOutput

NextErrors ==
    \/ \E key_path \in KeyPaths : ConfigGet(key_path)
    \/ \E key_value \in KeyValues : ConfigSet(key_value)
    \/ \E index \in IndexArgs, query \in JsonTexts, fails \in BOOLEAN :
          Search(index, query, fails)
    \/ \E index \in IndexArgs, settings \in JsonTexts, fails \in BOOLEAN :
          UpdateSettings(index, settings, fails)
    \/ \E index \in IndexArgs, fails \in BOOLEAN : Mapping(index, fails)
    \/ \E fails \in BOOLEAN : Health(fails)
    \/ \E index \in IndexArgs, body \in JsonTexts \cup {None}, fails \in BOOLEAN :
          CreateIndex(index, body, fails)
    \/ Exit

SpecErrors == InitErrors /\ [][NextErrors]_vars

\* LDAP binds: any [LDAP] section against any server
InitLdap ==
    /\ config \in LdapConfigs
    /\ selected_cluster = None
    /\ nodes = <<>>
    /\ inventory = NoInventory
    /\ failing = {}
    /\ online_nodes = None
    /\ es_indices = <<>>
    /\ directory \in Directories
    /\ out = NoOutput

NextLdap ==
    \/ LdapConnect
    \/ Exit

SpecLdap == InitLdap /\ [][NextLdap]_vars

\* Text rendering: nothing configured, any dict printed
InitHelper ==
    /\ config = <<>>
    /\ selected_cluster = None
    /\ nodes = <<>>
    /\ inventory = NoInventory
    /\ failing = {}
    /\ online_nodes = None
    /\ es_indices = <<>>
    /\ directory = NoDirectory
    /\ out = NoOutput

NextHelper ==
    \/ \E data \in Dicts(MaxDepth) : PrintData(data)
    \/ Exit

SpecHelper == InitHelper /\ [][NextHelper]_vars

\* `config set` and the commands that only read the file: any file over the
\* sections that the arguments of `config set` name or leave alone
SetConfigs ==
    {c \in ConfigFiles :
        \A i \in 1..Len(c) : c[i].name \in {S_LDAP, S_ldap, S_ELASTIC}}

InitConfigSet ==
    /\ config \in SetConfigs
    /\ selected_cluster = None
    /\ nodes = <<>>
    /\ inventory = NoInventory
    /\ failing = {}
    /\ online_nodes = None
    /\ es_indices = <<>>
    /\ directory = NoDirectory
    /\ out = NoOutput

NextConfigSet ==
    \/ \E key_value \in KeyValues : ConfigSet(key_value)
    \/ \E key_path \in KeyPaths : ConfigGet(key_path)
    \/ \E name \in RequestNames, prefix \in Prefixes : GetCluster(name, prefix)
    \/ Exit

SpecConfigSet == InitConfigSet /\ [][NextConfigSet]_vars

\* The operations on one client while the nodes of the cluster come and go
InitPveOps ==
    /\ config = <<>>
    /\ selected_cluster = None
    /\ \E env \in Environments : nodes = env.nodes /\ failing = env.failing
    /\ inventory = NoInventory
    /\ online_nodes = None
    /\ es_indices = <<>>
    /\ directory = NoDirectory
    /\ out = NoOutput

NextPveOps ==
    \/ \E op \in ChangingOperations, node \in NodeNames, vmid \in VmIds,
          accepted \in BOOLEAN : Operate(op, node, vmid, accepted)
    \/ \E i \in 1..Len(nodes) : NodeChange(i)
    \/ Return
    \/ Exit

SpecPveOps == InitPveOps /\ [][NextPveOps]_vars

\* The sets of matching indices the user may confirm (none with --force, where
\* nothing is asked) or the backend may refuse to delete
Answers(index, force) ==
    IF force THEN {{}} ELSE SUBSET Range(Matching(es_indices, index))

\* Index listing, reindex and delete: any backend listing
InitElastic ==
    /\ config = <<>>
    /\ selected_cluster = None
    /\ nodes = <<>>
    /\ inventory = NoInventory
    /\ failing = {}
    /\ online_nodes = None
    /\ es_indices \in Backends
    /\ directory = NoDirectory
    /\ out = NoOutput

NextElastic ==
    \/ /\ AtPrompt
       /\ \E index \in Patterns, force \in BOOLEAN :
              \E yes \in Answers(index, force), refused \in Answers(index, FALSE) :
                  Delete(index, force, yes, refused)
    \/ /\ AtPrompt
       /\ \E index \in Patterns, force \in BOOLEAN :
              \E yes \in Answers(index, force), refused \in Answers(index, FALSE) :
                  Reindex(index, force, yes, refused)
    \/ \E limit \in Limits, output \in {"table", "json"} : Indices(limit, output)
    \/ Exit

SpecElastic == InitElastic /\ [][NextElastic]_vars

\* The whole program
Init ==
    \/ InitConfig \/ InitPve \/ InitPveClient \/ InitPveCli \/ InitElastic
    \/ InitErrors \/ InitLdap \/ InitHelper \/ InitConfigSet
    \/ InitPveOps

Next ==
    \/ NextConfig \/ NextPve \/ NextPveClient \/ NextPveCli \/ NextElastic
    \/ NextErrors \/ NextLdap \/ NextHelper \/ NextConfigSet
    \/ NextPveOps

Spec == Init /\ [][Next]_vars

----------------------------------------------------------------------------
(* Properties of cluster resolution (checked under SpecConfig)             *)

\* The positions in the file of the sections whose name starts with the prefix,
\* ignoring case
WithPrefix(prefix) ==
    {i \in 1..Len(config) :
        LET n == config[i].name
        IN Len(n) >= Len(prefix)
           /\ \A k \in 1..Len(prefix) : UpperChar(n[k]) = UpperChar(prefix[k])}

\* The positions among them of the section with the given name
Named(prefix, name) == {i \in WithPrefix(prefix) : config[i].name = name}

\* The first such position in file order
FirstWithPrefix(prefix) ==
    CHOOSE i \in WithPrefix(prefix) : \A j \in WithPrefix(prefix) : i <= j

IsGetCluster == out.cmd = "get_cluster"

C2_NoClusterError ==
    IsGetCluster =>
        /\ (out.res.error = "RuntimeError") <=> (WithPrefix(out.prefix) = {})
        /\ out.res.error \in {"", "RuntimeError"}
        /\ out.res.error = "RuntimeError" =>
              /\ out.res.prefix = out.prefix
              /\ "section" \notin DOMAIN out.res
        /\ out.res.error = "" => "section" \in DOMAIN out.res

\* C2 witness: the requested name LDAP is a section of the file, no section
\* starts with ELASTIC, and the call fails
C2_Witness ==
    /\ IsGetCluster
    /\ out.name = S_LDAP
    /\ out.prefix = S_ELASTIC
    /\ \E i \in 1..Len(config) : config[i].name = S_LDAP
    /\ out.res.error = "RuntimeError"

\* The positions of the sections whose name equals the prefix ignoring case
BareIgnoringCase(prefix) ==
    {i \in WithPrefix(prefix) : Len(config[i].name) = Len(prefix)}

\* The requested name is absent or is no section under the prefix
NameNotFound == out.name = None \/ Named(out.prefix, out.name) = {}

\* C3 as stated: when the name is absent or not found and some section equals
\* the prefix ignoring case, that section is returned.
C3_Original ==
    (IsGetCluster /\ NameNotFound /\ BareIgnoringCase(out.prefix) # {}) =>
        /\ out.res.error = ""
        /\ \E i \in BareIgnoringCase(out.prefix) : out.res.section = config[i]

\* C3 amended: only the filtering step ignores case. When the name is absent
\* or not found, a section that equals the prefix ignoring case is returned
\* only if it is spelled exactly as the upper-cased prefix or is the first
\* section under the prefix; otherwise the first section under the prefix in
\* file order is returned.
C3_BarePrefixIsCaseSensitive ==
    (IsGetCluster /\ NameNotFound /\ BareIgnoringCase(out.prefix) # {}) =>
        /\ out.res.error = ""
        /\ IF \E i \in BareIgnoringCase(out.prefix) :
                 config[i].name = upper(out.prefix)
           THEN out.res.section.name = upper(out.prefix)
           ELSE out.res.section = config[FirstWithPrefix(out.prefix)]

\* C3 witness: `ldap` is listed after `ldap_prod`, the prefix is LDAP, no name
\* is requested, and `ldap_prod` is returned
C3_Witness ==
    /\ IsGetCluster
    /\ out.name = None
    /\ out.prefix = S_LDAP
    /\ Len(config) = 2
    /\ config[1].name = S_ldap_prod
    /\ config[2].name = S_ldap
    /\ out.res.error = ""
    /\ out.res.section = config[1]

\* C4: `pyadm elastic --cluster NAME <subcommand>`, for a section NAME of the
\* configuration file, builds its client from the settings of section NAME.
C4_ClusterOptionSelectsSection ==
    (out.cmd = "elastic"
        /\ \E i \in 1..Len(config) : config[i].name = out.cluster) =>
        /\ selected_cluster = out.cluster
        /\ out.res.error = ""
        /\ out.res.section.name = out.cluster

\* C5: `pyadm config get SECTION.key`, for a section SECTION of the file that
\* holds key, prints the value stored under key in that section, and a value
\* it prints is never taken from another section.
C5_ConfigGetReadsNamedSection ==
    (out.cmd = "config get" /\ Contains(out.key_path, ".")) =>
        LET section == SplitFirst(out.key_path, ".")[1]
            key     == SplitFirst(out.key_path, ".")[2]
        IN /\ out.res.echo = "value" => out.res.from = section
           /\ \A i \in 1..Len(config) :
                 (config[i].name = section /\ key \in DOMAIN config[i].opts) =>
                     /\ out.res.echo = "value"
                     /\ out.res.value = config[i].opts[key]

----------------------------------------------------------------------------
(* Properties of resolve_resource_id (checked under SpecPve)               *)

IsResolve == out.cmd = "resolve"

\* The position of a node in the answer of /nodes, 0 if it is not listed
NodePosition(node) ==
    IF \E i \in 1..Len(nodes) : nodes[i].node = node
    THEN CHOOSE i \in 1..Len(nodes) : nodes[i].node = node
    ELSE 0

\* The nodes that are online and answer their listing requests
Answering ==
    IF EP_nodes \in failing THEN {}
    ELSE {nodes[i].node : i \in {j \in 1..Len(nodes) :
                                    /\ nodes[j].status = "online"
                                    /\ nodes[j].node \notin failing}}

\* The nodes that are online and whose listing requests fail
Refusing ==
    IF EP_nodes \in failing THEN {}
    ELSE {nodes[i].node : i \in {j \in 1..Len(nodes) :
                                    /\ nodes[j].status = "online"
                                    /\ nodes[j].node \in failing}}

\* The VMIDs of the live resources of the requested kind
Live(resource_type) ==
    {v \in VmIds :
        /\ inventory[v].kind = (IF resource_type = "vm" THEN "vm" ELSE "ct")
        /\ inventory[v].node \in Answering}

\* The listing request fails as a whole: a node refused and nothing was listed
ListingRaises(resource_type) == Refusing # {} /\ Live(resource_type) = {}

\* The inventory of the worked example: VM 100 "web" on n1, VM 101 "db" on n2
ExampleInventory ==
    /\ inventory[100] = [kind |-> "vm", name |-> R_web, node |-> N1]
    /\ inventory[101] = [kind |-> "vm", name |-> R_db, node |-> N2]
    /\ Answering = {N1, N2}

\* C6: an identifier that parses as an integer, with no node given, is looked
\* up by VMID in the live list of the requested kind: if an entry has that
\* VMID the result is (id, that entry's node), and otherwise the call fails
\* asking for --node.
C6_ResolveById ==
    (IsResolve /\ IsInt(out.resource_id) /\ out.node = None) =>
        LET id == ParseInt(out.resource_id)
        IN IF ListingRaises(out.resource_type)
           THEN out.res.status = "Exception"
           ELSE IF id \in Live(out.resource_type)
           THEN out.res = [status |-> "ok", id |-> id,
                           node |-> inventory[id].node]
           ELSE /\ out.res.status = "ClickException"
                /\ out.res.msg = "specify --node"

\* C6 witness: in the worked example, "100" resolves to (100, n1)
C6_Witness ==
    /\ IsResolve
    /\ ExampleInventory
    /\ out.resource_id = <<"1","0","0">>
    /\ out.node = None
    /\ out.resource_type = "vm"
    /\ out.res = [status |-> "ok", id |-> 100, node |-> N1]

\* The live resources of the requested kind with the given name
LiveNamed(resource_type, name) ==
    {v \in Live(resource_type) : inventory[v].name = name}

\* The one of them that the listing shows first: nodes in the order of
\* /nodes, and within a node by VMID
FirstNamed(resource_type, name) ==
    CHOOSE v \in LiveNamed(resource_type, name) :
        \A w \in LiveNamed(resource_type, name) :
            \/ NodePosition(inventory[v].node) < NodePosition(inventory[w].node)
            \/ /\ inventory[v].node = inventory[w].node
               /\ v <= w

\* C7: a non-numeric identifier is looked up by exact name among the live
\* resources of the requested kind. With no such resource the call fails as
\* not found; with a node given that differs from the found resource's node
\* it fails naming both nodes; otherwise it returns the found resource's
\* (vmid, node).
C7_ResolveByName ==
    (IsResolve /\ ~IsInt(out.resource_id)) =>
        IF ListingRaises(out.resource_type)
        THEN out.res.status = "Exception"
        ELSE IF LiveNamed(out.resource_type, out.resource_id) = {}
        THEN /\ out.res.status = "ClickException"
             /\ out.res.msg = "not found"
        ELSE LET found == FirstNamed(out.resource_type, out.resource_id)
             IN IF out.node # None /\ inventory[found].node # out.node
                THEN /\ out.res.status = "ClickException"
                     /\ out.res.msg = "mismatch"
                     /\ out.res.exists_on = inventory[found].node
                     /\ out.res.specified = out.node
                ELSE out.res = [status |-> "ok", id |-> found,
                                node |-> inventory[found].node]

\* C7 witness: in the worked example, "db" with node n1 fails naming n2 and n1
C7_Witness ==
    /\ IsResolve
    /\ ExampleInventory
    /\ out.resource_id = R_db
    /\ out.node = N1
    /\ out.resource_type = "vm"
    /\ out.res.status = "ClickException"
    /\ out.res.msg = "mismatch"
    /\ out.res.exists_on = N2
    /\ out.res.specified = N1

\* C8: a name given without a node that several live resources of the
\* requested kind carry is refused as ambiguous, and no (id, node) is returned.
C8_AmbiguousNameRefused ==
    (IsResolve /\ ~IsInt(out.resource_id) /\ out.node = None
        /\ Cardinality(LiveNamed(out.resource_type, out.resource_id)) > 1) =>
        /\ out.res.status = "ClickException"
        /\ "id" \notin DOMAIN out.res

\* C22: when several live resources of the requested kind carry the name and
\* one of them is on the node given with --node, the resolution succeeds with
\* the vmid of a resource of that name on that node, and with that node.
C22_NodeOptionDisambiguates ==
    (IsResolve /\ ~IsInt(out.resource_id) /\ out.node # None
        /\ Cardinality(LiveNamed(out.resource_type, out.resource_id)) > 1
        /\ \E v \in LiveNamed(out.resource_type, out.resource_id) :
               inventory[v].node = out.node) =>
        /\ out.res.status = "ok"
        /\ out.res.node = out.node
        /\ out.res.id \in LiveNamed(out.resource_type, out.resource_id)
        /\ inventory[out.res.id].node = out.node

----------------------------------------------------------------------------
(* Properties of the index pattern (checked under SpecElastic)             *)

IsIndexLoop == out.cmd \in {"delete", "reindex"}

\* A wildcard pattern against a whole name: "*" stands for any run of
\* characters, possibly empty, and every other character for itself
RECURSIVE GlobMatch(_, _)
GlobMatch(pat, s) ==
    IF pat = <<>> THEN s = <<>>
    ELSE IF pat[1] = "*"
    THEN \E k \in 0..Len(s) : GlobMatch(Tail(pat), SubSeq(s, k + 1, Len(s)))
    ELSE s # <<>> /\ s[1] = pat[1] /\ GlobMatch(Tail(pat), Tail(s))

\* The pattern cut at its first "*": the characters every match must start with
RECURSIVE LiteralHead(_)
LiteralHead(pat) ==
    IF pat = <<>> \/ pat[1] = "*" THEN <<>>
    ELSE <<pat[1]>> \o LiteralHead(Tail(pat))

\* C9: in the pattern of reindex and delete every character other than "*"
\* matches only itself: an index the loop acts on starts with the pattern's
\* characters up to its first "*", "." included.
C9_MetacharactersAreLiteral ==
    IsIndexLoop =>
        \A i \in 1..Len(out.selected) :
            LET head == LiteralHead(out.index)
                name == out.selected[i]
            IN Len(name) >= Len(head)
               /\ \A k \in 1..Len(head) : name[k] = head[k]

\* C10: a pattern that does not end in "*" gets "*" appended, and the loop
\* acts on exactly the listed indices whose whole name matches the resulting
\* pattern with "*" standing for any run of characters; "*" selects every
\* listed index.
C10_SelectedIffWildcardMatch ==
    IsIndexLoop =>
        LET pat == IF out.index # <<>> /\ out.index[Len(out.index)] = "*"
                   THEN out.index
                   ELSE out.index \o <<"*">>
        IN /\ \A i \in 1..Len(out.listed) :
                 (\E j \in 1..Len(out.selected) :
                      out.selected[j] = out.listed[i])
                 <=> GlobMatch(pat, out.listed[i])
           /\ out.index = <<"*">> => out.selected = out.listed

----------------------------------------------------------------------------
(* Properties of index deletion and listing (checked under SpecElastic)    *)

IsDelete == out.cmd = "delete"

\* C11: delete with an --index NAME that contains no "*" requests the
\* deletion of no index other than the one named exactly NAME.
C11_ExactNameDeletesOnlyThatIndex ==
    (IsDelete /\ out.index # <<>> /\ ~Contains(out.index, "*")) =>
        \A i \in 1..Len(out.requests) : out.requests[i] = out.index

\* The index names sent to the backend by a reindex/delete loop
Sources ==
    IF out.cmd = "delete" THEN out.requests
    ELSE [i \in 1..Len(out.requests) |-> out.requests[i][1]]

\* C12: every index name passed to delete_index or as the source of reindex
\* is the name of an entry of the listing fetched by list_indices, and none
\* of them is a system index (a name starting with ".").
C12_OnlyListedNamesSent ==
    IsIndexLoop =>
        \A i \in 1..Len(Sources) :
            /\ \E j \in 1..Len(out.listed) : out.listed[j] = Sources[i]
            /\ Sources[i][1] # "."

\* C12 witness: a delete whose pattern matches every name, on a backend that
\* holds a system index, has deleted something and left the system index
C12_Witness ==
    /\ IsDelete
    /\ out.index = <<"*">>
    /\ out.requests # <<>>
    /\ \E i \in 1..Len(es_indices) : es_indices[i][1] = "."

\* C13: without --force every matching index is prompted for, in listing
\* order, and delete_index is called for an index exactly when its prompt was
\* answered with yes, after that prompt and before the next one; with
\* --force nothing is prompted and delete_index is called for every matching
\* index.
C13_DeleteOnlyAfterConfirmation ==
    IsDelete =>
        IF out.force
        THEN /\ out.prompted = <<>>
             /\ out.requests = out.selected
        ELSE /\ out.prompted = out.selected
             /\ \A k \in 1..Len(out.trace) :
                    out.trace[k].op = "delete_index" =>
                        /\ k > 1
                        /\ out.trace[k - 1] =
                               [op |-> "confirm",
                                index |-> out.trace[k].index, ok |-> TRUE]
             /\ \A k \in 1..Len(out.trace) :
                    (out.trace[k].op = "confirm" /\ out.trace[k].ok) =>
                        /\ k < Len(out.trace)
                        /\ out.trace[k + 1].op = "delete_index"
                        /\ out.trace[k + 1].index = out.trace[k].index

\* C13 witness: two matching indices, the first declined and the second
\* confirmed: only the second is deleted
C13_Witness ==
    /\ IsDelete
    /\ ~out.force
    /\ Len(out.selected) = 2
    /\ out.trace =
           <<[op |-> "confirm", index |-> out.selected[1], ok |-> FALSE],
             [op |-> "confirm", index |-> out.selected[2], ok |-> TRUE],
             [op |-> "delete_index", index |-> out.selected[2], ok |-> TRUE]>>

IsIndices == out.cmd = "indices"

\* Whether --limit is absent or zero, so that the whole listing is displayed
NoLimit == out.limit = None \/ ParseInt(out.limit) = 0

\* The listing is the backend's indices not starting with ".", each once,
\* in strictly ascending order of name
ListingSorted ==
    /\ Range(out.listed) = {name \in Range(es_indices) : name[1] # "."}
    /\ \A i, j \in 1..Len(out.listed) :
           i < j => StrLess(out.listed[i], out.listed[j])

Displayed ==
    IF out.printed.format = "json"
    THEN [i \in 1..Len(out.printed.array) |-> out.printed.array[i].index]
    ELSE IF out.printed.format = "table"
    THEN [i \in 1..Len(out.printed.table.rows) |->
             out.printed.table.rows[i][1]]
    ELSE <<>>

\* C15: with --limit N, 1 <= N <= the number of indices, the rows displayed
\* are the first N entries of the name-sorted listing, in ascending order.
C15_LimitShowsFirstN ==
    (IsIndices /\ out.limit # None /\ ParseInt(out.limit) >= 1
        /\ ParseInt(out.limit) <= Len(out.listed)) =>
        Displayed = SubSeq(out.listed, 1, ParseInt(out.limit))

----------------------------------------------------------------------------
(* Properties of the aggregation over nodes (checked under SpecPve)        *)

IsGetResources == out.cmd = "get_resources"

\* The online nodes a fresh client queries, and those of them whose query
\* succeeds
Queried ==
    IF EP_nodes \in failing THEN {}
    ELSE {nodes[i].node : i \in {j \in 1..Len(nodes) : nodes[j].status = "online"}}

Succeeded == Queried \ failing

\* C16: when the query of some online node fails and that of another
\* succeeds, get_vms / get_containers does not raise: it warns about the
\* failing nodes and returns the entries of the nodes that succeeded, also
\* when those are none; it raises only when no node succeeded.
C16_PartialFailureIsNotFatal ==
    IsGetResources =>
        /\ (Queried \cap failing # {} /\ Succeeded # {}) =>
              /\ ~out.res.raised
              /\ Range(out.res.warnings) = Queried \cap failing
              /\ {e.vmid : e \in Range(out.res.vms)} =
                     {v \in VmIds :
                         /\ inventory[v].kind = KindOf(out.resource_type)
                         /\ inventory[v].node \in Succeeded}
        /\ out.res.raised => Succeeded = {}

----------------------------------------------------------------------------
(* Properties of repeated resolutions (checked under SpecPveClient)        *)

\* The online nodes as /nodes reports them now
OnlineNow == get_online_nodes(None, nodes, failing)[1]

\* C19: every resolution on a client answers from the cluster as it is at
\* that call, whatever the client fetched before: the result is the one a
\* listing over the nodes online now gives.
C19_ResolutionReflectsRemoteState ==
    IsResolve =>
        out.res = resolve_resource_id(inventory, OnlineNow, Unreachable,
                                      out.resource_id, out.node,
                                      out.resource_type)

----------------------------------------------------------------------------
(* Properties of --dry-run (checked under SpecPveCli)                      *)

IsVmStart == out.cmd = "vm start"

\* With --dry-run nothing is connected to or read: no client is built, not
\* even the offline one, the configuration file is not looked at and no
\* request is issued
DryRunTouchesNothing ==
    (IsVmStart /\ out.dry_run) =>
        /\ out.client = "None"
        /\ ~out.config_read
        /\ out.requests = <<>>

\* C20: with --dry-run a pve subcommand opens no connection, issues no API
\* request, is not affected by --offline or by the configuration file, and
\* completes without an error.
C20_DryRunCompletes ==
    (IsVmStart /\ out.dry_run) =>
        /\ out.client = "None"
        /\ ~out.config_read
        /\ out.requests = <<>>
        /\ out.status = "ok"

----------------------------------------------------------------------------
(* Properties of error handling (checked under SpecErrors)                 *)

\* C17: a command that caught an error (a malformed argument, or a failed
\* backend call that the wrapper catches) ends with a non-zero exit status
\* and a message on standard error.
C17_HandledErrorExitsNonZero ==
    ("run" \in DOMAIN out /\ out.run.handled) =>
        /\ out.run.exit # 0
        /\ out.run.stderr # <<>>

----------------------------------------------------------------------------
(* Properties of the LDAP bind (checked under SpecLdap)                    *)

IsLdapConnect == out.cmd = "ldap connect"

\* The k-th guessed DN for a username and base DN: uid= and cn= alternate,
\* the part before "@" is used by guesses 1, 2, 5 and 6 and the whole
\* username by the others, and guesses 5 to 8 sit under cn=users
Guess(k, username, base_dn) ==
    (IF k % 2 = 1 THEN <<"u","i","d","=">> ELSE <<"c","n","=">>)
    \o (IF k \in {1, 2, 5, 6}
        THEN SubSeq(username, 1,
                    (CHOOSE i \in 1..Len(username) :
                        username[i] = "@"
                        /\ \A j \in 1..(i - 1) : username[j] # "@") - 1)
        ELSE username)
    \o (IF k > 4 THEN <<",","c","n","=","u","s","e","r","s">> ELSE <<>>)
    \o <<",">> \o base_dn

\* C18: binds beyond the first are made only after the first bind with the
\* configured username failed and that username contains "@" and does not
\* start with "cn="; they use the eight guessed DNs once each in the listed
\* order, all with the configured password, and stop at the first success.
\* A username without "@" whose first bind fails gets an error and no
\* further bind.
C18_GuessedBindsOnlyForEmail ==
    (IsLdapConnect /\ out.res.binds # <<>>) =>
        LET binds    == out.res.binds
            username == out.opts[K_bind_username]
            base_dn  == out.opts[K_base_dn]
            emailish == /\ \E i \in 1..Len(username) : username[i] = "@"
                        /\ ~(Len(username) >= 3
                             /\ SubSeq(username, 1, 3) = <<"c","n","=">>)
        IN /\ binds[1].user = username
           /\ \A k \in 1..Len(binds) :
                  binds[k].password = out.opts[K_bind_password]
           /\ Len(binds) > 1 => (binds[1].result = "fail" /\ emailish)
           /\ (binds[1].result = "fail" /\ emailish) =>
                 /\ Len(binds) > 1
                 /\ Len(binds) <= 9
                 /\ \A k \in 2..Len(binds) :
                        binds[k].user = Guess(k - 1, username, base_dn)
                 /\ \A k \in 2..(Len(binds) - 1) : binds[k].result # "ok"
                 /\ Len(binds) < 9 => binds[Len(binds)].result = "ok"
                 /\ (out.res.status = "bound") <=>
                        binds[Len(binds)].result = "ok"
           /\ (binds[1].result = "fail" /\ ~emailish) =>
                 /\ Len(binds) = 1
                 /\ out.res.status = "ValueError"

\* C18 witness: the bind as j@x fails, the first two guesses fail and the
\* third, uid=j@x,dc=x, succeeds and ends the loop although the server
\* would bind a later guess too
C18_Witness ==
    /\ IsLdapConnect
    /\ Cardinality(directory.accepts) = 2
    /\ directory.accepts \subseteq
           Range(dn_patterns(U_email, <<"d","c","=","x">>))
    /\ out.opts[K_bind_username] = U_email
    /\ out.res.status = "bound"
    /\ Len(out.res.binds) = 4
    /\ out.res.binds[1].result = "fail"
    /\ out.res.binds[4].user =
           <<"u","i","d","=","j","@","x",",","d","c","=","x">>
    /\ out.res.binds[4].result = "ok"

----------------------------------------------------------------------------
(* Properties of the text rendering (checked under SpecHelper)             *)

IsPrintData == out # NoOutput /\ out.cmd = "print_data"

\* The leaves of a dict, each with the keys of the dicts around it
RECURSIVE LeavesOf(_, _)
LeavesOf(d, path) ==
    IF d = <<>> THEN <<>>
    ELSE (IF Head(d).isdict
          THEN LeavesOf(Head(d).items, Append(path, Head(d).key))
          ELSE <<[path |-> path, key |-> Head(d).key, value |-> Head(d).value]>>)
         \o LeavesOf(Tail(d), path)

\* The nested dicts of a dict, at any depth
RECURSIVE NestedIn(_)
NestedIn(d) ==
    IF d = <<>> THEN 0
    ELSE (IF Head(d).isdict THEN 1 + NestedIn(Head(d).items) ELSE 0)
         + NestedIn(Tail(d))

\* Whether text t occurs in line s
Within(s, t) ==
    \E i \in 0..(Len(s) - Len(t)) : SubSeq(s, i + 1, i + Len(t)) = t

\* The part of the claim about leaves, which the code keeps: one line per
\* leaf, in order, holding the capitalized key, a colon and the value
LeafLines ==
    IsPrintData =>
        LET leaves == LeavesOf(out.data, <<>>)
        IN \E at \in [1..Len(leaves) -> 1..Len(out.lines)] :
              /\ \A i, j \in 1..Len(leaves) : i < j => at[i] < at[j]
              /\ \A i \in 1..Len(leaves) :
                    Within(out.lines[at[i]],
                           capitalize(replace(leaves[i].key, "_", " "))
                             \o <<":", " ">> \o Decimal(leaves[i].value))

\* C21: print_data prints one line per leaf value, with the key's underscores
\* turned into spaces and capitalized, and one section-header line for each
\* nested map: the output has as many lines as the data has leaves and nested
\* maps together, and the leaf lines are among them in order.
C21_LeafLinesAndSectionHeaders ==
    IsPrintData =>
        /\ LeafLines
        /\ Len(out.lines) = Len(LeavesOf(out.data, <<>>)) + NestedIn(out.data)

----------------------------------------------------------------------------
(* Properties of `config set` (checked under SpecConfigSet)                *)

\* The value stored for an option of a section, None if there is none
OptionOf(sections, section, key) ==
    IF \E i \in 1..Len(sections) :
           sections[i].name = section /\ key \in DOMAIN sections[i].opts
    THEN LET i == CHOOSE j \in 1..Len(sections) :
                      sections[j].name = section /\ key \in DOMAIN sections[j].opts
         IN sections[i].opts[key]
    ELSE None

\* The section names of a file, in file order
NamesOf(sections) == [i \in 1..Len(sections) |-> sections[i].name]

\* The argument has an "=" and, before the first one, a "."
WellFormed(key_value) ==
    /\ Contains(key_value, "=")
    /\ Contains(SplitFirst(key_value, "=")[1], ".")

SectionArg(key_value) == SplitFirst(SplitFirst(key_value, "=")[1], ".")[1]
KeyArg(key_value)     == SplitFirst(SplitFirst(key_value, "=")[1], ".")[2]
ValueArg(key_value)   == SplitFirst(key_value, "=")[2]

\* Between two files only the one option changed: it has the value, every
\* other option of every section is as before, the sections are in the same
\* order, and the section was added at the end if it was missing
SetsOnly(before, after, section, key, value) ==
    /\ OptionOf(after, section, key) = value
    /\ \A n \in SectionNames \cup {S_NOPE}, k \in Keys \cup {K_URL, K_nokey} :
          (n # section \/ k # key) =>
              OptionOf(after, n, k) = OptionOf(before, n, k)
    /\ NamesOf(after) = IF \E i \in 1..Len(before) : before[i].name = section
                        THEN NamesOf(before)
                        ELSE Append(NamesOf(before), section)

\* A step that runs `config set`
RunsConfigSet == out.cmd = "none" /\ out'.cmd = "config set"

----------------------------------------------------------------------------
(* Properties of the state-changing operations (checked under SpecPveOps)  *)

IsOperate == out.cmd = "operate"

\* The online-node list the client has after the call: its cache, or the
\* empty list when /nodes could not be fetched
ClientOnline == IF online_nodes = None THEN {} ELSE Range(online_nodes)

\* The requests of a call that change something on a node
Changing(requests) ==
    {i \in 1..Len(requests) : requests[i].op # "GET /nodes"}

\* C24: an operation whose target node is not in the client's online-node
\* list raises, and no POST, PUT or DELETE request has been sent.
C24_OfflineNodeGetsNoRequest ==
    (IsOperate /\ out.node \notin ClientOnline) =>
        /\ out.raised
        /\ Changing(out.requests) = {}

\* C24 witness: start_vm on n2, which /nodes reports offline while n1 is
\* online, raised after the one request for /nodes
C24_Witness ==
    /\ IsOperate
    /\ out.op = "start_vm"
    /\ out.node = N2
    /\ ClientOnline = {N1}
    /\ out.raised
    /\ out.error = "node is offline"
    /\ out.requests = <<Request("GET /nodes", None, 0)>>

----------------------------------------------------------------------------
(* Properties of get_next_vmid (checked under SpecPve)                     *)

IsNextVmid == out.cmd = "get_next_vmid"

\* The lowest id from 100 on that is not in a set of ids
LowestFree(used) ==
    CHOOSE n \in MinVmid..(MaxVmid + 1) :
        n \notin used /\ \A m \in MinVmid..(n - 1) : m \in used

\* The ids the cluster has given to a VM or a container
Taken == {v \in VmIds : inventory[v] # Absent}

\* The helper of C25 that the code keeps: with nextid answering, the result
\* is the cluster's next id
NextIdIsReturned ==
    (IsNextVmid /\ ~out.nextid_fails) =>
        /\ ~out.res.raised
        /\ out.res.vmid = LowestFree(Taken)

\* C25: get_next_vmid returns the cluster's nextid when that request
\* succeeds; when it fails, it raises only if no online node answers its
\* listing requests, and otherwise returns the lowest id from 100 on that no
\* VM or container in the listings of the online nodes has.
C25_NextVmidFallback ==
    IsNextVmid =>
        IF ~out.nextid_fails
        THEN ~out.res.raised /\ out.res.vmid = LowestFree(Taken)
        ELSE IF out.res.raised
        THEN Answering = {}
        ELSE out.res.vmid = LowestFree(Live("vm") \cup Live("container"))

============================================================================
